---------------------------- MODULE Spec2Model ----------------------------
(***************************************************************************)
(* State-machine model of the linch-redact front end: the zustand stores   *)
(* (file, editor, settings, OCR, detection rules), the page list, the      *)
(* preview canvas, the detection panel, the rule editors and the three     *)
(* generations of Footer.handleStartProcessing that the repository holds.  *)
(*                                                                         *)
(* Strings that the code takes apart (paths, file names, regex patterns)   *)
(* are sequences of tokens: a token is a separator character or a chunk    *)
(* that contains none, and no token is a prefix of another, so two strings *)
(* are equal exactly when their token sequences are.  Page-relative        *)
(* coordinates are integers in thousandths of the page (One is 1.0).       *)
(* nanoid() is a counter of fresh ids.                                     *)
(***************************************************************************)
EXTENDS Integers, Sequences, FiniteSets, TLC

VARIABLES
    \* useFileStore, PDF files; PreviewCanvas: loadAndRender calls in flight
    files, selectedFileId, nextId, loads,
    \* pdf.ts: the renders of page.render that have not finished, the module
    \* variable currentRenderTask, and the number of the next render
    renderTasks, currentRenderTask, nextRenderId,
    \* useEditorStore; maskOwner observes the file each mask was made for
    currentFileId, currentPage, drawing, masksByFile, nextMaskId, maskOwner,
    \* useSettingsStore
    mode, outputDirectory, cleaning, verification,
    \* useOcrStore; the setCurrentEngine call in flight; the loadStatus call in
    \* flight; the engine selection of the backend process
    currentEngine, engineStatus, dialogOpen, engineSwitch, statusLoad, backendEngine,
    \* useDetectionRulesStore: detection results; DetectionPanel: useState;
    \* detectCall observes what the last scan handed to detectSensitiveContent
    hitsByFile, addedHitsByFile, hitMaskIds, scan, needsOcr, detectCall,
    \* the generation of DetectionPanel.tsx that is built, and the hits and
    \* addedHits its first generation keeps in useState, with the file they were
    \* detected in (observation)
    panel, localHits,
    \* the generation of Footer.tsx that is built, the page-keyed mask store
    \* of its second generation, useState processing, the process_pdfs
    \* request in flight, the state of the per-document loop, and the stores
    \* as they were when the run in flight started (observation); outcome is
    \* what the latest call of handleStartProcessing has reported so far; job is
    \* the backend's job for the process_pdfs request, with its files on disk
    footer, masksByPage, processing, request, run, atStart, outcome, job,
    \* useDetectionRulesStore: rules; the backend's saved rules; loadRules and
    \* save_detection_rules calls in flight; observation of the custom rules
    \* that were persisted and of those the user removed
    rules, rulesAreDefaults, initialized, persisted, loading, saves,
    \* useProcessingStore; pausedNow observes that pauseProcessing was the last
    \* of startProcessing, pauseProcessing, resumeProcessing and clearTasks
    tasks, isRunning, pausedNow,
    nextRuleId, persistedCustom, removedByUser,
    \* useFileStore, documents; addDocuments calls in flight
    documents, selectedDocumentId, isLoading, error, addCalls,
    \* observation: the last request of the user and what it did
    lastOp

renderVars == <<renderTasks, currentRenderTask, nextRenderId>>
fileVars == <<files, selectedFileId, nextId, loads, renderVars>>
editorVars == <<currentFileId, currentPage, drawing, masksByFile, nextMaskId, maskOwner>>
settingsVars == <<mode, outputDirectory, cleaning, verification>>
ocrVars == <<currentEngine, engineStatus, dialogOpen, engineSwitch, statusLoad,
            backendEngine>>
hitVars == <<hitsByFile, addedHitsByFile, hitMaskIds, scan, needsOcr, detectCall,
            panel, localHits>>
footerVars == <<footer, masksByPage, processing, request, run, atStart, outcome, job>>
ruleVars == <<rules, rulesAreDefaults, initialized, persisted, loading, saves,
              nextRuleId, persistedCustom, removedByUser>>
docVars == <<documents, selectedDocumentId, isLoading, error, addCalls>>
taskVars == <<tasks, isRunning, pausedNow>>
vars == <<fileVars, editorVars, settingsVars, ocrVars, hitVars, footerVars,
          ruleVars, docVars, taskVars, lastOp>>

-----------------------------------------------------------------------------
(* Bounds of the model *)
MaxFiles == 1
MaxPages == 2
MaxLoads == 2
MaxRenders == 3
MaxMasks == 2
MaxCustomRules == 1
MaxSaves == 1
MaxDocs == 2
MaxAddCalls == 1
MaxTasks == 2

(* Values of the program *)
Null == 0
One == 1000
MinMaskSize == 10
MinResize == 20

-----------------------------------------------------------------------------
(* Strings as token sequences *)

\* String.prototype.split on a set of separator tokens
Split(s, seps) ==
    LET F[i \in 0..Len(s)] ==
            IF i = 0 THEN << <<>> >>
            ELSE LET prev == F[i - 1]
                 IN  IF s[i] \in seps
                     THEN Append(prev, <<>>)
                     ELSE [prev EXCEPT ![Len(prev)] = Append(@, s[i])]
    IN  F[Len(s)]

\* Array.prototype.join
Join(parts, sep) ==
    LET F[i \in 0..Len(parts)] ==
            IF i = 0 THEN <<>>
            ELSE IF i = 1 THEN parts[1]
            ELSE F[i - 1] \o <<sep>> \o parts[i]
    IN  F[Len(parts)]

Last(s) == s[Len(s)]
Front(s) == SubSeq(s, 1, Len(s) - 1)
Max(a, b) == IF a > b THEN a ELSE b
Min(a, b) == IF a < b THEN a ELSE b
Abs(a) == IF a < 0 THEN 0 - a ELSE a

\* String.prototype.slice(0, -n), n counted in tokens
SliceOffEnd(s, n) == SubSeq(s, 1, Max(Len(s) - n, 0))

\* String.prototype.trim
RECURSIVE TrimStart(_)
TrimStart(s) == IF s # <<>> /\ s[1] = " " THEN TrimStart(Tail(s)) ELSE s
RECURSIVE TrimEnd(_)
TrimEnd(s) == IF s # <<>> /\ Last(s) = " " THEN TrimEnd(Front(s)) ELSE s
Trim(s) == TrimEnd(TrimStart(s))

PathSeps == {"/", "\\"}

\* path.split(/[/\\]/).pop() ?? path
NameOfPath(path) == Last(Split(path, PathSeps))

\* getDirectory: parts.pop(); parts.join("/") || "/"
getDirectory(filePath) ==
    LET d == Join(Front(Split(filePath, PathSeps)), "/")
    IN  IF d = <<>> THEN <<"/">> ELSE d

-----------------------------------------------------------------------------
(* JS objects used as dictionaries: functions with the present keys as domain *)

EmptyMap == <<>>
Put(f, k, v) == [x \in DOMAIN f \cup {k} |-> IF x = k THEN v ELSE f[x]]
Drop(f, k) == [x \in DOMAIN f \ {k} |-> f[x]]
Get(f, k, default) == IF k \in DOMAIN f THEN f[k] ELSE default

SeqFilter(s, Keep(_)) ==
    LET F[i \in 0..Len(s)] ==
            IF i = 0 THEN <<>>
            ELSE IF Keep(s[i]) THEN Append(F[i - 1], s[i]) ELSE F[i - 1]
    IN  F[Len(s)]

Range(s) == {s[i] : i \in DOMAIN s}

-----------------------------------------------------------------------------
(* useFileStore: the files and the one selected *)

FileIds == {files[i].id : i \in DOMAIN files}
FileById(id) == CHOOSE f \in Range(files) : f.id = id
\* getSelectedFile: files.find((f) => f.id === selectedFileId) ?? null
HasSelectedFile == selectedFileId \in FileIds

-----------------------------------------------------------------------------
(* useEditorStore *)

NoDrawing == [on |-> FALSE]

\* a setCurrentFileId that leaves the drawing alone
setCurrentFileIdKeepDrawing(fileId) ==
    /\ currentFileId' = fileId
    /\ currentPage' = 0
    /\ drawing' = drawing

\* setCurrentFileId, as the assignments it makes
setCurrentFileId(fileId) ==
    /\ currentFileId' = fileId
    /\ currentPage' = 0
    /\ drawing' = NoDrawing

\* getMasksByPage(fileId): masksByFile[fileId] ?? {}
getMasksByPage(m, fileId) == Get(m, fileId, EmptyMap)

\* the store update shared by finishDrawing and addMask
WithMask(m, fileId, page, mask) ==
    LET fileMasks == Get(m, fileId, EmptyMap)
        pageMasks == Get(fileMasks, page, <<>>)
    IN  Put(m, fileId, Put(fileMasks, page, Append(pageMasks, mask)))

\* clearFileMasks
clearFileMasks(m, fileId) == Drop(m, fileId)

\* getRelativePosition: (clientX - canvasRect.left) / canvasRect.width
CanvasRect == [left |-> 40, top |-> 40, width |-> 200, height |-> 200]
getRelativePosition(clientX, clientY) ==
    [x |-> ((clientX - CanvasRect.left) * One) \div CanvasRect.width,
     y |-> ((clientY - CanvasRect.top) * One) \div CanvasRect.height]

\* handlePointerDown: startDrawing(pos.x, pos.y)
StartDrawing(clientX, clientY) ==
    /\ HasSelectedFile
    /\ LET pos == getRelativePosition(clientX, clientY)
       IN  drawing' = [on |-> TRUE, startX |-> pos.x, startY |-> pos.y,
                       currentX |-> pos.x, currentY |-> pos.y]
    /\ UNCHANGED <<currentFileId, currentPage, masksByFile, nextMaskId, maskOwner>>
    /\ UNCHANGED <<fileVars, settingsVars, ocrVars, hitVars, footerVars, ruleVars,
                   docVars, taskVars, lastOp>>

\* handlePointerMove: updateDrawing(pos.x, pos.y) while a drawing is on
UpdateDrawing(clientX, clientY) ==
    /\ drawing.on
    /\ LET pos == getRelativePosition(clientX, clientY)
       IN  drawing' = [drawing EXCEPT !.currentX = pos.x, !.currentY = pos.y]
    /\ UNCHANGED <<currentFileId, currentPage, masksByFile, nextMaskId, maskOwner>>
    /\ UNCHANGED <<fileVars, settingsVars, ocrVars, hitVars, footerVars, ruleVars,
                   docVars, taskVars, lastOp>>

\* finishDrawing drops a rectangle when `width < 0.01 || height < 0.01`
TooSmall(width, height) == width < MinMaskSize \/ height < MinMaskSize

\* handlePointerUp: finishDrawing()
FinishDrawing ==
    /\ footer # "masksByPage"
    /\ drawing.on
    /\ LET x == Min(drawing.startX, drawing.currentX)
           y == Min(drawing.startY, drawing.currentY)
           width == Abs(drawing.currentX - drawing.startX)
           height == Abs(drawing.currentY - drawing.startY)
           mask == [id |-> nextMaskId, x |-> x, y |-> y,
                    width |-> width, height |-> height]
       IN  IF currentFileId = Null
           THEN UNCHANGED <<drawing, masksByFile, nextMaskId, maskOwner, lastOp>>
           ELSE IF TooSmall(width, height)
           THEN /\ drawing' = NoDrawing
                /\ lastOp' = [op |-> "finishDrawing", stored |-> FALSE,
                              empty |-> width = 0 \/ height = 0]
                /\ UNCHANGED <<masksByFile, nextMaskId, maskOwner>>
           ELSE /\ nextMaskId <= MaxMasks
                /\ drawing' = NoDrawing
                /\ masksByFile' = WithMask(masksByFile, currentFileId, currentPage, mask)
                /\ nextMaskId' = nextMaskId + 1
                /\ maskOwner' = Put(maskOwner, mask.id, currentFileId)
                /\ lastOp' = [op |-> "finishDrawing", stored |-> TRUE,
                              empty |-> width = 0 \/ height = 0]
    /\ UNCHANGED <<currentFileId, currentPage>>
    /\ UNCHANGED <<fileVars, settingsVars, ocrVars, hitVars, footerVars, ruleVars, docVars, taskVars>>

\* removeMask(currentPage, mask.id), from the overlay of a mask of the page shown
RemoveMask(maskId) ==
    /\ footer # "masksByPage"
    /\ currentFileId # Null
    /\ LET fileMasks == Get(masksByFile, currentFileId, EmptyMap)
           pageMasks == Get(fileMasks, currentPage, <<>>)
       IN  /\ \E i \in DOMAIN pageMasks : pageMasks[i].id = maskId
           /\ masksByFile' = Put(masksByFile, currentFileId,
                                 Put(fileMasks, currentPage,
                                     SeqFilter(pageMasks, LAMBDA m : m.id # maskId)))
    /\ UNCHANGED <<currentFileId, currentPage, drawing, nextMaskId, maskOwner>>
    /\ UNCHANGED <<fileVars, settingsVars, ocrVars, hitVars, footerVars, ruleVars,
                   docVars, taskVars, lastOp>>

\* `{ ...m, ...newBounds }`
WithBounds(m, newBounds) ==
    [k \in DOMAIN m |-> IF k \in DOMAIN newBounds THEN newBounds[k] ELSE m[k]]

\* resizeMask(page, maskId, newBounds), as the new masksByFile
resizeMask(m, fileId, page, maskId, newBounds) ==
    LET fileMasks == Get(m, fileId, EmptyMap)
        pageMasks == Get(fileMasks, page, <<>>)
    IN  Put(m, fileId,
            Put(fileMasks, page,
                [i \in DOMAIN pageMasks |->
                    IF pageMasks[i].id = maskId
                    THEN WithBounds(pageMasks[i], newBounds) ELSE pageMasks[i]]))

\* the masks MaskOverlay is rendered for: those of the page shown
ShownMasks == Get(Get(masksByFile, currentFileId, EmptyMap), currentPage, <<>>)

\* MaskOverlay, handlePointerMove of a drag: the bounds handed to onResize
Moved(startMask, deltaX, deltaY) ==
    [x |-> Max(0, Min(One - startMask.width, startMask.x + deltaX)),
     y |-> Max(0, Min(One - startMask.height, startMask.y + deltaY))]

\* MaskOverlay, handlePointerMove of a resize: the bounds handed to onResize;
\* handle is the set of letters of the handle's name
Resized(startMask, handle, deltaX, deltaY) ==
    LET newX == IF "w" \in handle
                THEN Max(0, Min(startMask.x + startMask.width - MinResize,
                                startMask.x + deltaX))
                ELSE startMask.x
        widthW == IF "w" \in handle
                  THEN startMask.width - (newX - startMask.x) ELSE startMask.width
        newWidth == IF "e" \in handle
                    THEN Max(MinResize, Min(One - startMask.x, startMask.width + deltaX))
                    ELSE widthW
        newY == IF "n" \in handle
                THEN Max(0, Min(startMask.y + startMask.height - MinResize,
                                startMask.y + deltaY))
                ELSE startMask.y
        heightN == IF "n" \in handle
                   THEN startMask.height - (newY - startMask.y) ELSE startMask.height
        newHeight == IF "s" \in handle
                     THEN Max(MinResize, Min(One - startMask.y, startMask.height + deltaY))
                     ELSE heightN
    IN  [x |-> newX, y |-> newY, width |-> newWidth, height |-> newHeight]

\* a pointer down on the selected mask and a pointer move: onResize({ x, y })
\* with the mask as it was at the pointer down
DragMask(maskId, deltaX, deltaY) ==
    /\ footer # "masksByPage"
    /\ currentFileId # Null
    /\ \E i \in DOMAIN ShownMasks :
          /\ ShownMasks[i].id = maskId
          /\ masksByFile' = resizeMask(masksByFile, currentFileId, currentPage, maskId,
                                       Moved(ShownMasks[i], deltaX, deltaY))
    /\ UNCHANGED <<currentFileId, currentPage, drawing, nextMaskId, maskOwner>>
    /\ UNCHANGED <<fileVars, settingsVars, ocrVars, hitVars, footerVars, ruleVars,
                   docVars, taskVars, lastOp>>

\* a pointer down on a handle of the mask and a pointer move:
\* onResize({ x, y, width, height })
ResizeByHandle(maskId, handle, deltaX, deltaY) ==
    /\ footer # "masksByPage"
    /\ currentFileId # Null
    /\ \E i \in DOMAIN ShownMasks :
          /\ ShownMasks[i].id = maskId
          /\ masksByFile' = resizeMask(masksByFile, currentFileId, currentPage, maskId,
                                       Resized(ShownMasks[i], handle, deltaX, deltaY))
    /\ UNCHANGED <<currentFileId, currentPage, drawing, nextMaskId, maskOwner>>
    /\ UNCHANGED <<fileVars, settingsVars, ocrVars, hitVars, footerVars, ruleVars,
                   docVars, taskVars, lastOp>>

-----------------------------------------------------------------------------
(* useFileStore: PDF files *)

\* addFiles(paths)
AddFiles(paths) ==
    /\ nextId + Len(paths) - 1 <= MaxFiles
    /\ LET newFiles == [i \in 1..Len(paths) |->
                           [id |-> nextId + i - 1, path |-> paths[i],
                            pageCount |-> 0, pages |-> <<>>]]
           newSelectedId == IF selectedFileId # Null THEN selectedFileId
                            ELSE IF Len(paths) > 0 THEN newFiles[1].id ELSE Null
       IN  /\ files' = files \o newFiles
           /\ nextId' = nextId + Len(paths)
           /\ outputDirectory' =
                  IF Len(files) = 0 /\ Len(paths) > 0 /\ outputDirectory = <<>>
                  THEN getDirectory(paths[1]) ELSE outputDirectory
           /\ selectedFileId' = newSelectedId
           /\ IF selectedFileId = Null /\ newSelectedId # Null
              THEN setCurrentFileId(newSelectedId)
              ELSE UNCHANGED <<currentFileId, currentPage, drawing>>
    /\ UNCHANGED <<loads, renderVars, masksByFile, nextMaskId, maskOwner, mode, cleaning, verification>>
    /\ UNCHANGED <<ocrVars, hitVars, footerVars, ruleVars, docVars, taskVars, lastOp>>

\* removeFile(id)
RemoveFile(id) ==
    /\ id \in FileIds
    /\ LET rest == SeqFilter(files, LAMBDA f : f.id # id)
           newSelectedId == IF selectedFileId = id
                            THEN (IF Len(rest) > 0 THEN rest[1].id ELSE Null)
                            ELSE selectedFileId
       IN  /\ masksByFile' = clearFileMasks(masksByFile, id)
           /\ files' = rest
           /\ selectedFileId' = newSelectedId
           /\ IF newSelectedId # selectedFileId
              THEN setCurrentFileId(newSelectedId)
              ELSE UNCHANGED <<currentFileId, currentPage, drawing>>
    /\ UNCHANGED <<nextId, loads, renderVars, nextMaskId, maskOwner>>
    /\ UNCHANGED <<settingsVars, ocrVars, hitVars, footerVars, ruleVars, docVars, taskVars, lastOp>>

\* clearFiles()
ClearFiles ==
    /\ masksByFile' = EmptyMap
    /\ setCurrentFileId(Null)
    /\ files' = <<>>
    /\ selectedFileId' = Null
    /\ UNCHANGED <<nextId, loads, renderVars, nextMaskId, maskOwner>>
    /\ UNCHANGED <<settingsVars, ocrVars, hitVars, footerVars, ruleVars, docVars, taskVars, lastOp>>

\* selectFile(id), from a click on a listed file
SelectFile(id) ==
    /\ id \in FileIds
    /\ IF id # selectedFileId
       THEN setCurrentFileId(id)
       ELSE UNCHANGED <<currentFileId, currentPage, drawing>>
    /\ selectedFileId' = id
    /\ UNCHANGED <<files, nextId, loads, renderVars, masksByFile, nextMaskId, maskOwner>>
    /\ UNCHANGED <<settingsVars, ocrVars, hitVars, footerVars, ruleVars, docVars, taskVars, lastOp>>

\* setPageCount(id, count): every page of the file starts over as keep
setPageCount(fs, id, count) ==
    [i \in DOMAIN fs |->
        IF fs[i].id # id THEN fs[i]
        ELSE [fs[i] EXCEPT !.pageCount = count,
                           !.pages = [p \in 1..count |-> "keep"]]]

\* setPageAction(id, pageIndex, action); pages[p] is the page of index p - 1
setPageAction(fs, id, pageIndex, action) ==
    [i \in DOMAIN fs |->
        IF fs[i].id # id THEN fs[i]
        ELSE [fs[i] EXCEPT !.pages =
                 [p \in DOMAIN fs[i].pages |->
                     IF p - 1 = pageIndex THEN action ELSE fs[i].pages[p]]]]

\* setCurrentPage(page.index), from a click on a page of the page list
SetCurrentPage(page) ==
    /\ HasSelectedFile
    /\ page + 1 \in DOMAIN FileById(selectedFileId).pages
    /\ currentPage' = page
    /\ drawing' = NoDrawing
    /\ UNCHANGED <<currentFileId, masksByFile, nextMaskId, maskOwner>>
    /\ UNCHANGED <<fileVars, settingsVars, ocrVars, hitVars, footerVars, ruleVars,
                   docVars, taskVars, lastOp>>

-----------------------------------------------------------------------------
(* PreviewCanvas: the loadAndRender effect of the selected file *)

\* the runs of the effect in flight that closed over the same values as load
SameLoads(load) == {l \in loads : l.id = load.id /\ l.pageCount = load.pageCount}

\* The effect starts and closes over the file of this render; run numbers the
\* runs in flight that closed over the same values.
LoadAndRenderStart ==
    /\ HasSelectedFile
    /\ Cardinality(loads) < MaxLoads
    /\ LET file == FileById(selectedFileId)
           load == [id |-> file.id, pageCount |-> file.pageCount]
       IN  loads' = loads \cup {[id |-> load.id, pageCount |-> load.pageCount,
                                 run |-> Cardinality(SameLoads(load))]}
    /\ UNCHANGED <<files, selectedFileId, nextId, renderVars>>
    /\ UNCHANGED <<editorVars, settingsVars, ocrVars, hitVars, footerVars, ruleVars,
                   docVars, taskVars, lastOp>>

\* loadPdf returns; the page count is written before `cancelled` is read.
LoadAndRenderDone(load, numPages) ==
    /\ load \in loads
    /\ loads' = loads \ {l \in SameLoads(load) : l.run = Cardinality(SameLoads(load)) - 1}
    /\ files' = IF load.pageCount # numPages
                THEN setPageCount(files, load.id, numPages) ELSE files
    /\ UNCHANGED <<selectedFileId, nextId, renderVars>>
    /\ UNCHANGED <<editorVars, settingsVars, ocrVars, hitVars, footerVars, ruleVars,
                   docVars, taskVars, lastOp>>

\* currentRenderTask.cancel(): the render stops, its promise will reject with
\* RenderingCancelledException
Cancelled(renders, id) ==
    {IF t.id = id THEN [t EXCEPT !.state = "cancelled"] ELSE t : t \in renders}

\* renderPageToCanvas(page, canvas) up to `await renderTask.promise`: the task
\* in currentRenderTask, if any, is cancelled, page.render starts a render and
\* currentRenderTask is that render
RenderPageToCanvas ==
    /\ HasSelectedFile
    /\ nextRenderId <= MaxRenders
    /\ renderTasks' =
          (IF currentRenderTask # Null
           THEN Cancelled(renderTasks, currentRenderTask) ELSE renderTasks)
          \cup {[id |-> nextRenderId, state |-> "running"]}
    /\ currentRenderTask' = nextRenderId
    /\ nextRenderId' = nextRenderId + 1
    /\ UNCHANGED <<files, selectedFileId, nextId, loads>>
    /\ UNCHANGED <<editorVars, settingsVars, ocrVars, hitVars, footerVars, ruleVars,
                   docVars, taskVars, lastOp>>

\* renderTask.promise of a render settles: resolved when the render has run to
\* its end, rejected when it was cancelled; `finally { currentRenderTask = null }`
RenderSettled(id) ==
    /\ \E t \in renderTasks : t.id = id
    /\ renderTasks' = {t \in renderTasks : t.id # id}
    /\ currentRenderTask' = Null
    /\ UNCHANGED <<files, selectedFileId, nextId, loads, nextRenderId>>
    /\ UNCHANGED <<editorVars, settingsVars, ocrVars, hitVars, footerVars, ruleVars,
                   docVars, taskVars, lastOp>>

-----------------------------------------------------------------------------
(* PageList.handleDelete *)

nonDeletedCount(pages) == Cardinality({p \in DOMAIN pages : pages[p] # "delete"})

LastPageGuardOff(pages) == FALSE
LastPageGuardEmptyOnly(pages) == nonDeletedCount(pages) < 1
\* `if (nonDeletedCount <= 1) { toast.warning(...); return }`
LastPageGuard(pages) == nonDeletedCount(pages) <= 1

HandleDelete(pageIndex) ==
    /\ HasSelectedFile
    /\ LET selectedFile == FileById(selectedFileId)
           pages == selectedFile.pages
       IN  /\ pageIndex + 1 \in DOMAIN pages
           /\ IF pages[pageIndex + 1] = "delete"
              THEN /\ files' = setPageAction(files, selectedFile.id, pageIndex, "keep")
                   /\ lastOp' = [op |-> "handleDelete", wrote |-> TRUE]
              ELSE IF LastPageGuard(pages)
              THEN /\ files' = files
                   /\ lastOp' = [op |-> "handleDelete", wrote |-> FALSE]
              ELSE /\ files' = setPageAction(files, selectedFile.id, pageIndex, "delete")
                   /\ lastOp' = [op |-> "handleDelete", wrote |-> TRUE]
    /\ UNCHANGED <<selectedFileId, nextId, loads, renderVars>>
    /\ UNCHANGED <<editorVars, settingsVars, ocrVars, hitVars, footerVars, ruleVars, docVars, taskVars>>

-----------------------------------------------------------------------------
(* useOcrStore *)

NoStatus == [on |-> FALSE]
NoSwitch == [on |-> FALSE]
NoLoad == [on |-> FALSE]

isOcrReadyPaddleOnly == IF engineStatus.on THEN engineStatus.paddle ELSE FALSE
\* isOcrReady / ocrReady of Footer and DetectionPanel
isOcrReady ==
    IF currentEngine = "paddle"
    THEN (IF engineStatus.on THEN engineStatus.paddle ELSE FALSE)
    ELSE (IF engineStatus.on THEN engineStatus.tesseract ELSE FALSE)

\* loadStatus, when getPlatform and getOcrEngineStatus have answered
LoadStatusReturn(paddle) ==
    /\ ~engineStatus.on /\ ~statusLoad.on
    /\ engineStatus' = [on |-> TRUE, paddle |-> paddle, tesseract |-> FALSE,
                        currentEngine |-> backendEngine]
    /\ currentEngine' = backendEngine
    /\ UNCHANGED <<dialogOpen, engineSwitch, statusLoad, backendEngine>>
    /\ UNCHANGED <<fileVars, editorVars, settingsVars, hitVars, footerVars, ruleVars,
                   docVars, taskVars, lastOp>>

\* setCurrentEngine(engine) up to `await tauri.setOcrEngine(engine)`
SetCurrentEngine(engine) ==
    /\ ~engineSwitch.on
    /\ engineSwitch' = [on |-> TRUE, engine |-> engine, stage |-> "setOcrEngine"]
    /\ UNCHANGED <<currentEngine, engineStatus, dialogOpen, statusLoad, backendEngine>>
    /\ UNCHANGED <<fileVars, editorVars, settingsVars, hitVars, footerVars, ruleVars,
                   docVars, taskVars, lastOp>>

\* setOcrEngine has answered: set({ currentEngine: engine }) and the status is
\* asked for; or it has rejected, and setCurrentEngine throws
SetOcrEngineReturn(ok) ==
    /\ engineSwitch.on /\ engineSwitch.stage = "setOcrEngine"
    /\ IF ok
       THEN /\ currentEngine' = engineSwitch.engine
            /\ backendEngine' = engineSwitch.engine
            /\ engineSwitch' = [engineSwitch EXCEPT !.stage = "getOcrEngineStatus"]
       ELSE /\ engineSwitch' = NoSwitch
            /\ UNCHANGED <<currentEngine, backendEngine>>
    /\ UNCHANGED <<engineStatus, dialogOpen, statusLoad>>
    /\ UNCHANGED <<fileVars, editorVars, settingsVars, hitVars, footerVars, ruleVars,
                   docVars, taskVars, lastOp>>

\* getOcrEngineStatus has answered: set({ engineStatus }); or it has rejected
GetOcrEngineStatusReturn(ok, paddle, tesseract) ==
    /\ engineSwitch.on /\ engineSwitch.stage = "getOcrEngineStatus"
    /\ engineSwitch' = NoSwitch
    /\ engineStatus' = IF ok THEN [on |-> TRUE, paddle |-> paddle, tesseract |-> tesseract,
                                   currentEngine |-> backendEngine]
                       ELSE engineStatus
    /\ UNCHANGED <<currentEngine, dialogOpen, statusLoad, backendEngine>>
    /\ UNCHANGED <<fileVars, editorVars, settingsVars, hitVars, footerVars, ruleVars,
                   docVars, taskVars, lastOp>>

\* loadStatus up to `await Promise.all([getPlatform(), getOcrEngineStatus()])`
LoadStatus ==
    /\ ~statusLoad.on
    /\ statusLoad' = [on |-> TRUE, answered |-> FALSE]
    /\ UNCHANGED <<currentEngine, engineStatus, dialogOpen, engineSwitch, backendEngine>>
    /\ UNCHANGED <<fileVars, editorVars, settingsVars, hitVars, footerVars, ruleVars,
                   docVars, taskVars, lastOp>>

\* get_ocr_engine_status of the backend reads the engine selection for the
\* loadStatus in flight; its answer is on the way to the store
LoadStatusAnswered(paddle, tesseract) ==
    /\ statusLoad.on /\ ~statusLoad.answered
    /\ statusLoad' = [on |-> TRUE, answered |-> TRUE,
                      engineStatus |-> [on |-> TRUE, paddle |-> paddle,
                                        tesseract |-> tesseract,
                                        currentEngine |-> backendEngine]]
    /\ UNCHANGED <<currentEngine, engineStatus, dialogOpen, engineSwitch, backendEngine>>
    /\ UNCHANGED <<fileVars, editorVars, settingsVars, hitVars, footerVars, ruleVars,
                   docVars, taskVars, lastOp>>

\* the answer reaches loadStatus: set({ platform, engineStatus, currentEngine:
\* engineStatus.currentEngine, isLoading: false })
LoadStatusResolved ==
    /\ statusLoad.on /\ statusLoad.answered
    /\ engineStatus' = statusLoad.engineStatus
    /\ currentEngine' = statusLoad.engineStatus.currentEngine
    /\ statusLoad' = NoLoad
    /\ UNCHANGED <<dialogOpen, engineSwitch, backendEngine>>
    /\ UNCHANGED <<fileVars, editorVars, settingsVars, hitVars, footerVars, ruleVars,
                   docVars, taskVars, lastOp>>

\* getPlatform or getOcrEngineStatus rejects: the catch of loadStatus logs and
\* sets isLoading false
LoadStatusRejected ==
    /\ statusLoad.on /\ ~statusLoad.answered
    /\ statusLoad' = NoLoad
    /\ UNCHANGED <<currentEngine, engineStatus, dialogOpen, engineSwitch, backendEngine>>
    /\ UNCHANGED <<fileVars, editorVars, settingsVars, hitVars, footerVars, ruleVars,
                   docVars, taskVars, lastOp>>

-----------------------------------------------------------------------------
(* DetectionPanel *)

NoScan == [on |-> FALSE]
NoCall == [made |-> FALSE]
NoLocalHits == [hits |-> <<>>, addedHits |-> {}, from |-> Null]
EnabledRules(rs) == SeqFilter(rs, LAMBDA r : r.enabled)

\* getHits(fileId) and getAddedHits(fileId) of the selected file
getHits(fileId) == Get(hitsByFile, fileId, <<>>)
getAddedHits(fileId) == Get(addedHitsByFile, fileId, {})

\* runDetection up to `await analyzePdf(selectedFile.path)`
RunDetection ==
    /\ HasSelectedFile
    /\ ~scan.on
    /\ Len(EnabledRules(rules)) # 0
    /\ scan' = [on |-> TRUE, fileId |-> selectedFileId, ocrReady |-> isOcrReady]
    /\ needsOcr' = FALSE
    /\ detectCall' = NoCall
    /\ UNCHANGED <<hitsByFile, addedHitsByFile, hitMaskIds>>
    /\ UNCHANGED <<panel, localHits>>
    /\ UNCHANGED <<fileVars, editorVars, settingsVars, ocrVars, footerVars, ruleVars,
                   docVars, taskVars, lastOp>>

\* what runDetection hands to detectSensitiveContent:
\* `useOcr = imagePageCount > 0 && ocrReady`, with the ocrReady of the render
\* the scan was started from; installed observes the active engine at the call
DetectCall(imagePageCount) ==
    [made |-> TRUE, useOcr |-> imagePageCount > 0 /\ scan.ocrReady,
     installed |-> isOcrReady]

\* analyzePdf has answered with the number of image-based pages and, when the
\* scan goes on, detectSensitiveContent with its results: setHits(fileId, results)
DetectReturn(imagePageCount, results) ==
    /\ scan.on
    /\ IF imagePageCount > 0 /\ ~scan.ocrReady
       THEN /\ needsOcr' = TRUE
            /\ UNCHANGED <<hitsByFile, addedHitsByFile, detectCall>>
       ELSE /\ detectCall' = DetectCall(imagePageCount)
            /\ hitsByFile' = Put(hitsByFile, scan.fileId, results)
            /\ addedHitsByFile' = Put(addedHitsByFile, scan.fileId, {})
            /\ UNCHANGED needsOcr
    /\ scan' = NoScan
    /\ UNCHANGED hitMaskIds
    /\ UNCHANGED <<panel, localHits>>
    /\ UNCHANGED <<fileVars, editorVars, settingsVars, ocrVars, footerVars, ruleVars,
                   docVars, taskVars, lastOp>>

\* analyzePdf has failed
DetectFail ==
    /\ scan.on
    /\ scan' = NoScan
    /\ UNCHANGED <<hitsByFile, addedHitsByFile, hitMaskIds, needsOcr, detectCall>>
    /\ UNCHANGED <<panel, localHits>>
    /\ UNCHANGED <<fileVars, editorVars, settingsVars, ocrVars, footerVars, ruleVars,
                   docVars, taskVars, lastOp>>

\* analyzePdf has answered and detectSensitiveContent has failed
DetectCallFail(imagePageCount) ==
    /\ scan.on
    /\ ~(imagePageCount > 0 /\ ~scan.ocrReady)
    /\ detectCall' = DetectCall(imagePageCount)
    /\ scan' = NoScan
    /\ UNCHANGED <<hitsByFile, addedHitsByFile, hitMaskIds, needsOcr>>
    /\ UNCHANGED <<panel, localHits>>
    /\ UNCHANGED <<fileVars, editorVars, settingsVars, ocrVars, footerVars, ruleVars,
                   docVars, taskVars, lastOp>>

NeverAdded(added, hitIndex) == FALSE
\* `if (addedHits.has(hitIndex)) return`
AlreadyAdded(added, hitIndex) == hitIndex \in added

\* the mask made of a hit: its bbox as it is
MaskOfHit(id, hit) ==
    [id |-> id, x |-> hit.bbox.x, y |-> hit.bbox.y,
     width |-> hit.bbox.width, height |-> hit.bbox.height]

\* addHitAsMask(hit, hitIndex): addMask(hit.page, mask, fileId), markHitAdded,
\* setHitMaskIds, setCurrentPage; hits[h] is the hit of index h - 1
AddHitAsMask(hitIndex) ==
    /\ HasSelectedFile
    /\ footer # "masksByPage"
    /\ LET fileId == selectedFileId
           hits == getHits(fileId)
       IN  /\ hitIndex + 1 \in DOMAIN hits
           /\ IF AlreadyAdded(getAddedHits(fileId), hitIndex)
              THEN /\ lastOp' = [op |-> "addHitAsMask", added |-> 0]
                   /\ UNCHANGED <<masksByFile, nextMaskId, maskOwner, addedHitsByFile,
                                  hitMaskIds, currentPage, drawing>>
              ELSE /\ nextMaskId <= MaxMasks
                   /\ LET hit == hits[hitIndex + 1]
                          mask == MaskOfHit(nextMaskId, hit)
                      IN  /\ masksByFile' = WithMask(masksByFile, fileId, hit.page, mask)
                          /\ nextMaskId' = nextMaskId + 1
                          /\ maskOwner' = Put(maskOwner, mask.id, fileId)
                          /\ addedHitsByFile' =
                                 Put(addedHitsByFile, fileId,
                                     getAddedHits(fileId) \cup {hitIndex})
                          /\ hitMaskIds' = Put(hitMaskIds, hitIndex, mask.id)
                          /\ IF hit.page # currentPage
                             THEN currentPage' = hit.page /\ drawing' = NoDrawing
                             ELSE UNCHANGED <<currentPage, drawing>>
                          /\ lastOp' = [op |-> "addMask", stored |-> TRUE,
                                        empty |-> mask.width = 0 \/ mask.height = 0]
    /\ UNCHANGED <<currentFileId, hitsByFile, scan, needsOcr, detectCall>>
    /\ UNCHANGED <<panel, localHits>>
    /\ UNCHANGED <<fileVars, settingsVars, ocrVars, footerVars, ruleVars, docVars, taskVars>>

\* removeHitMask(hit, hitIndex): removeMask(hit.page, maskId, fileId),
\* setHitMaskIds, unmarkHitAdded
RemoveHitMask(hitIndex) ==
    /\ HasSelectedFile
    /\ footer # "masksByPage"
    /\ LET fileId == selectedFileId
           hits == getHits(fileId)
       IN  /\ hitIndex + 1 \in DOMAIN hits
           /\ hitIndex \in getAddedHits(fileId)
           /\ IF hitIndex \in DOMAIN hitMaskIds
              THEN LET fileMasks == Get(masksByFile, fileId, EmptyMap)
                       page == hits[hitIndex + 1].page
                       pageMasks == Get(fileMasks, page, <<>>)
                   IN  /\ masksByFile' =
                              Put(masksByFile, fileId,
                                  Put(fileMasks, page,
                                      SeqFilter(pageMasks,
                                                LAMBDA m : m.id # hitMaskIds[hitIndex])))
                       /\ hitMaskIds' = Drop(hitMaskIds, hitIndex)
              ELSE UNCHANGED <<masksByFile, hitMaskIds>>
           /\ addedHitsByFile' =
                  Put(addedHitsByFile, fileId, getAddedHits(fileId) \ {hitIndex})
    /\ UNCHANGED <<currentFileId, currentPage, drawing, nextMaskId, maskOwner>>
    /\ UNCHANGED <<hitsByFile, scan, needsOcr, detectCall>>
    /\ UNCHANGED <<panel, localHits>>
    /\ UNCHANGED <<fileVars, settingsVars, ocrVars, footerVars, ruleVars, docVars, taskVars, lastOp>>

\* addAllHitsAsMasks: for every hit not yet added, in order, addMask(hit.page,
\* mask, fileId); then setHitMaskIds and markAllHitsAdded(fileId)
AddAllHitsAsMasks ==
    /\ HasSelectedFile
    /\ footer # "masksByPage"
    /\ LET fileId == selectedFileId
           hits == getHits(fileId)
           addedHits == getAddedHits(fileId)
           \* new[k]: the index of the k-th hit that gets a mask
           new == SeqFilter([h \in 1..Len(hits) |-> h - 1],
                            LAMBDA idx : ~AlreadyAdded(addedHits, idx))
           After[k \in 0..Len(new)] ==
               IF k = 0 THEN masksByFile
               ELSE WithMask(After[k - 1], fileId, hits[new[k] + 1].page,
                             MaskOfHit(nextMaskId + k - 1, hits[new[k] + 1]))
       IN  /\ Len(hits) > 0
           /\ nextMaskId + Len(new) - 1 <= MaxMasks
           /\ masksByFile' = After[Len(new)]
           /\ nextMaskId' = nextMaskId + Len(new)
           /\ maskOwner' = [id \in DOMAIN maskOwner
                                     \cup {nextMaskId + k - 1 : k \in 1..Len(new)} |->
                                IF id \in DOMAIN maskOwner THEN maskOwner[id] ELSE fileId]
           /\ hitMaskIds' = [idx \in DOMAIN hitMaskIds \cup Range(new) |->
                                IF idx \in Range(new)
                                THEN nextMaskId + (CHOOSE k \in 1..Len(new) : new[k] = idx) - 1
                                ELSE hitMaskIds[idx]]
           /\ addedHitsByFile' =
                  Put(addedHitsByFile, fileId, {h - 1 : h \in 1..Len(hits)})
           /\ lastOp' = [op |-> "addAllHitsAsMasks", added |-> Len(new)]
    /\ UNCHANGED <<currentFileId, currentPage, drawing>>
    /\ UNCHANGED <<hitsByFile, scan, needsOcr, detectCall>>
    /\ UNCHANGED <<panel, localHits>>
    /\ UNCHANGED <<fileVars, settingsVars, ocrVars, footerVars, ruleVars, docVars, taskVars>>

-----------------------------------------------------------------------------
(* DetectionPanel, first generation: hits and addedHits in useState *)

LocalFrame ==
    /\ UNCHANGED <<hitsByFile, addedHitsByFile, hitMaskIds, panel>>
    /\ UNCHANGED <<fileVars, settingsVars, ocrVars, footerVars, ruleVars, docVars, taskVars>>

\* runDetection up to `await analyzePdf(selectedFile.path)`
LocalRunDetection ==
    /\ panel = "useState"
    /\ HasSelectedFile
    /\ ~scan.on
    /\ Len(EnabledRules(rules)) # 0
    /\ scan' = [on |-> TRUE, fileId |-> selectedFileId, ocrReady |-> isOcrReady]
    /\ localHits' = NoLocalHits
    /\ needsOcr' = FALSE
    /\ detectCall' = NoCall
    /\ UNCHANGED <<editorVars, lastOp>>
    /\ LocalFrame

\* analyzePdf has answered, and detectSensitiveContent when the scan goes on:
\* setHits(results)
LocalDetectReturn(imagePageCount, results) ==
    /\ panel = "useState"
    /\ scan.on
    /\ IF imagePageCount > 0 /\ ~scan.ocrReady
       THEN /\ needsOcr' = TRUE
            /\ UNCHANGED <<localHits, detectCall>>
       ELSE /\ detectCall' = DetectCall(imagePageCount)
            /\ localHits' = [localHits EXCEPT !.hits = results, !.from = scan.fileId]
            /\ UNCHANGED needsOcr
    /\ scan' = NoScan
    /\ UNCHANGED <<editorVars, lastOp>>
    /\ LocalFrame

\* analyzePdf or detectSensitiveContent has failed
LocalDetectFail ==
    /\ panel = "useState"
    /\ scan.on
    /\ scan' = NoScan
    /\ UNCHANGED <<localHits, needsOcr, detectCall, editorVars, lastOp>>
    /\ LocalFrame

\* addHitAsMask(hit, hitIndex): addMask(hit.page, mask) goes to the current
\* file of the editor, and to no file when there is none; setAddedHits
LocalAddHitAsMask(hitIndex) ==
    /\ panel = "useState"
    /\ hitIndex + 1 \in DOMAIN localHits.hits
    /\ IF AlreadyAdded(localHits.addedHits, hitIndex)
       THEN /\ lastOp' = [op |-> "addHitAsMask", added |-> 0]
            /\ UNCHANGED <<masksByFile, nextMaskId, maskOwner, localHits>>
       ELSE /\ nextMaskId <= MaxMasks
            /\ LET hit == localHits.hits[hitIndex + 1]
                   mask == MaskOfHit(nextMaskId, hit)
               IN  /\ IF currentFileId = Null
                      THEN UNCHANGED <<masksByFile, maskOwner>>
                      ELSE /\ masksByFile' =
                                 WithMask(masksByFile, currentFileId, hit.page, mask)
                           /\ maskOwner' = Put(maskOwner, mask.id, currentFileId)
                   /\ nextMaskId' = nextMaskId + 1
                   /\ localHits' = [localHits EXCEPT !.addedHits = @ \cup {hitIndex}]
                   /\ lastOp' = [op |-> "addMask", stored |-> currentFileId # Null,
                                 empty |-> mask.width = 0 \/ mask.height = 0]
    /\ UNCHANGED <<currentFileId, currentPage, drawing, scan, needsOcr, detectCall>>
    /\ LocalFrame

-----------------------------------------------------------------------------
(* The page-keyed editor store that the second generation of Footer and     *)
(* MaskList read (s.masksByPage): one list of masks per page index, whatever *)
(* the file shown.                                                           *)

\* finishDrawing of the page-keyed store
LegacyFinishDrawing ==
    /\ footer = "masksByPage"
    /\ drawing.on
    /\ LET x == Min(drawing.startX, drawing.currentX)
           y == Min(drawing.startY, drawing.currentY)
           width == Abs(drawing.currentX - drawing.startX)
           height == Abs(drawing.currentY - drawing.startY)
           mask == [id |-> nextMaskId, x |-> x, y |-> y,
                    width |-> width, height |-> height]
       IN  IF TooSmall(width, height)
           THEN /\ drawing' = NoDrawing
                /\ UNCHANGED <<masksByPage, nextMaskId, maskOwner>>
           ELSE /\ nextMaskId <= MaxMasks
                /\ drawing' = NoDrawing
                /\ masksByPage' = Put(masksByPage, currentPage,
                                      Append(Get(masksByPage, currentPage, <<>>), mask))
                /\ nextMaskId' = nextMaskId + 1
                /\ maskOwner' = Put(maskOwner, mask.id, currentFileId)
    /\ UNCHANGED <<currentFileId, currentPage, masksByFile>>
    /\ UNCHANGED <<footer, processing, request, run, atStart, outcome, job>>
    /\ UNCHANGED <<fileVars, settingsVars, ocrVars, hitVars, ruleVars, docVars, taskVars, lastOp>>

-----------------------------------------------------------------------------
(* Footer, first and second generation: one process_pdfs request per run *)

NoRequest == [on |-> FALSE]
NoSnapshot == [on |-> FALSE]
NoRun == [on |-> FALSE]
NoOutcome == [shown |-> "none"]

\* masks.map((m) => ({ x, y, width, height }))
StripMask(m) == [x |-> m.x, y |-> m.y, width |-> m.width, height |-> m.height]
StripMasksByPage(byPage) ==
    [p \in DOMAIN byPage |-> [i \in DOMAIN byPage[p] |-> StripMask(byPage[p][i])]]

\* `const request = { files: files.map(...), output_directory, prefix }`
BuildRequest(fs, mbf, dir) ==
    [on |-> TRUE,
     files |-> [i \in DOMAIN fs |->
                  [path |-> fs[i].path,
                   pages |-> fs[i].pages,
                   masks_by_page |-> StripMasksByPage(getMasksByPage(mbf, fs[i].id))]],
     output_directory |-> dir]

\* the same of the second generation: Object.entries(masksByPage) for every file
BuildRequestByPage(fs, mbp, dir) ==
    [on |-> TRUE,
     files |-> [i \in DOMAIN fs |->
                  [path |-> fs[i].path,
                   pages |-> fs[i].pages,
                   masks_by_page |-> StripMasksByPage(mbp)]],
     output_directory |-> dir]

\* the stores as a run finds them
Snapshot ==
    [on |-> TRUE, files |-> files, masksByFile |-> masksByFile,
     masksByPage |-> masksByPage, maskOwner |-> maskOwner,
     outputDirectory |-> outputDirectory, rules |-> rules, documents |-> documents]

\* the job of the Redaction Applier that the process_pdfs command runs for the
\* request: the stage it is in, the page its page-level steps have reached, the
\* cancellation flag, whether a rule still matches what it wrote, and what lies
\* at the temporary and at the final path of its output
NoJob == [state |-> "none", temp |-> "none", final |-> "none"]
Submitted(j) ==
    [state |-> "pending", page |-> 0, cancel |-> FALSE, survives |-> FALSE,
     temp |-> "none", final |-> j.final, before |-> j.final]

\* the command has answered: the job is gone, the file at the final path stays
Collected(j) == [NoJob EXCEPT !.final = j.final]

\* handleStartProcessing up to `await processPdfs(request)`; the button is
\* `disabled={!hasFiles || processing}`
HandleStartProcessing ==
    /\ footer \in {"masksByFile", "masksByPage"}
    /\ Len(files) > 0 /\ ~processing
    /\ IF mode = "searchable" /\ ~isOcrReady
       THEN /\ dialogOpen' = TRUE
            /\ outcome' = [shown |-> "ocrDialog"]
            /\ UNCHANGED <<processing, request, atStart, job>>
       ELSE IF outputDirectory = <<>>
       THEN /\ outcome' = [shown |-> "selectOutputDir"]
            /\ UNCHANGED <<dialogOpen, processing, request, atStart, job>>
       ELSE /\ processing' = TRUE
            /\ request' = IF footer = "masksByFile"
                          THEN BuildRequest(files, masksByFile, outputDirectory)
                          ELSE BuildRequestByPage(files, masksByPage, outputDirectory)
            /\ atStart' = Snapshot
            /\ outcome' = NoOutcome
            /\ UNCHANGED <<dialogOpen, job>>
    /\ UNCHANGED <<footer, masksByPage, run, currentEngine, engineStatus, engineSwitch,
                   statusLoad, backendEngine>>
    /\ UNCHANGED <<fileVars, editorVars, settingsVars, hitVars, ruleVars, docVars, taskVars, lastOp>>

\* what the process_pdfs command answers: success when no file failed, or the
\* errors of the files that did; or the invoke rejects
Answered(errors) == [thrown |-> FALSE, success |-> errors = 0, errors |-> errors]
Thrown == [thrown |-> TRUE]
ProcessResults == {Answered(errors) : errors \in 0..MaxFiles} \cup {Thrown}

\* `if (result.success) toast.success(...) else toast.error(...)`, and the catch
ShownFor(result) ==
    IF result.thrown THEN "error"
    ELSE IF result.success THEN "success" ELSE "error"

\* processPdfs has answered or thrown: toasts, `finally { setProcessing(false) }`
ProcessReturn(result) ==
    /\ footer \in {"masksByFile", "masksByPage"}
    /\ processing
    /\ processing' = FALSE
    /\ request' = NoRequest
    /\ atStart' = NoSnapshot
    /\ outcome' = [shown |-> ShownFor(result), result |-> result]
    /\ job' = Collected(job)
    /\ UNCHANGED <<footer, masksByPage, run>>
    /\ UNCHANGED <<fileVars, editorVars, settingsVars, ocrVars, hitVars, ruleVars,
                   docVars, taskVars, lastOp>>

-----------------------------------------------------------------------------
(* The Redaction Applier behind process_pdfs: one job for the file of the   *)
(* request                                                                  *)

JobRunning == job.state \notin {"none", "done", "failed", "cancelled"}
JobPages == request.files[1].pages

JobFrame ==
    /\ UNCHANGED <<footer, masksByPage, processing, request, run, atStart, outcome>>
    /\ UNCHANGED <<fileVars, editorVars, settingsVars, ocrVars, hitVars, ruleVars,
                   docVars, taskVars, lastOp>>

\* the job ends without an output: the temporary file is dropped
Ended(j, state) == [j EXCEPT !.state = state, !.temp = "none"]

\* the process_pdfs command has the request: a pending job for its file
JobSubmit ==
    /\ request.on /\ Len(request.files) = 1
    /\ job.state = "none"
    /\ job' = Submitted(job)
    /\ JobFrame

\* pending -> analyzing
JobAnalyze ==
    /\ job.state = "pending"
    /\ job' = [job EXCEPT !.state = "analyzing"]
    /\ JobFrame

\* analyzing -> ocr_if_needed only if recommended or requested, else matched
JobAnalyzed(ocr) ==
    /\ job.state = "analyzing"
    /\ job' = [job EXCEPT !.state = IF ocr THEN "ocr_if_needed" ELSE "matched"]
    /\ JobFrame

\* one page-level step of OCR, the cancellation flag checked before it
JobOcrPage ==
    /\ job.state = "ocr_if_needed"
    /\ job' = IF job.cancel THEN Ended(job, "cancelled")
              ELSE IF job.page < Len(JobPages) THEN [job EXCEPT !.page = @ + 1]
              ELSE [job EXCEPT !.state = "matched", !.page = 0]
    /\ JobFrame

\* matched -> masked: the hits merged with the masks of the request
JobMask ==
    /\ job.state = "matched"
    /\ job' = [job EXCEPT !.state = "masked", !.page = 0]
    /\ JobFrame

\* masked -> applying; fails fast when every page is marked delete
JobApply ==
    /\ job.state = "masked"
    /\ job' = IF \A i \in DOMAIN JobPages : JobPages[i] = "delete"
              THEN Ended(job, "failed")
              ELSE [job EXCEPT !.state = "applying"]
    /\ JobFrame

WrittenInPlace(j) == [j EXCEPT !.final = "partial"]
\* the rewritten pages go to a temporary location
Written(j) == [j EXCEPT !.temp = "partial"]

\* one page-level step of applying, the cancellation flag checked before it;
\* leaves: a rule still matches the page as it was written
JobApplyPage(leaves) ==
    /\ job.state = "applying"
    /\ job' = IF job.cancel THEN Ended(job, "cancelled")
              ELSE IF job.page < Len(JobPages)
              THEN [Written(job) EXCEPT !.page = @ + 1, !.survives = @ \/ leaves]
              ELSE [job EXCEPT !.state = "cleaning"]
    /\ JobFrame

\* cleaning -> verifying: the output is complete at the temporary location
JobClean ==
    /\ job.state = "cleaning"
    /\ job' = [job EXCEPT !.state = "verifying", !.temp = "complete"]
    /\ JobFrame

VerifiedAnyway(j) == [j EXCEPT !.state = "done", !.temp = "none", !.final = j.temp]
\* verifying: a rule that still matches the output fails the run; else the
\* output is moved to the final path
Verified(j) ==
    IF j.survives THEN Ended(j, "failed")
    ELSE [j EXCEPT !.state = "done", !.temp = "none", !.final = j.temp]

JobVerify ==
    /\ job.state = "verifying"
    /\ job' = Verified(job)
    /\ JobFrame

\* an unrecoverable I/O or structural error, in any state
JobFail ==
    /\ JobRunning
    /\ job' = Ended(job, "failed")
    /\ JobFrame

\* the cancellation flag is raised
JobCancel ==
    /\ JobRunning /\ ~job.cancel
    /\ job' = [job EXCEPT !.cancel = TRUE]
    /\ JobFrame

\* what process_pdfs answers when the job of its one file has ended
JobResult == Answered(IF job.state = "done" THEN 0 ELSE 1)

JobAnswer ==
    /\ request.on /\ Len(request.files) = 1
    /\ job.state \in {"done", "failed", "cancelled"}
    /\ ProcessReturn(JobResult)

-----------------------------------------------------------------------------
(* useDetectionRulesStore: rules *)

defaultRules ==
    << [id |-> "id_card_cn", name |-> <<"id card">>, ruleType |-> "regex",
        pattern |-> <<"\\d{17}[\\dXx]">>, enabled |-> TRUE],
       [id |-> "phone_cn", name |-> <<"phone">>, ruleType |-> "regex",
        pattern |-> <<"1[3-9]\\d{9}">>, enabled |-> TRUE],
       [id |-> "email", name |-> <<"email">>, ruleType |-> "regex",
        pattern |-> <<"[\\w.+-]+@[\\w.-]+\\.\\w{2,}">>, enabled |-> FALSE],
       [id |-> "bank_card", name |-> <<"bank card">>, ruleType |-> "regex",
        pattern |-> <<"\\d{16,19}">>, enabled |-> FALSE] >>

\* builtinRuleIds
builtinRuleIds == {defaultRules[i].id : i \in DOMAIN defaultRules}

RuleIds(rs) == {rs[i].id : i \in DOMAIN rs}
CustomIds(rs) == RuleIds(rs) \ builtinRuleIds

\* savedById.get(id): of the rules with this id, the last one
SavedById(savedRules, id) ==
    savedRules[CHOOSE i \in DOMAIN savedRules :
                  /\ savedRules[i].id = id
                  /\ \A j \in DOMAIN savedRules : savedRules[j].id = id => j <= i]

MergeBuiltinSavedWins(def, saved) == saved
\* `{ ...def, enabled: saved.enabled }`
MergeBuiltin(def, saved) == [def EXCEPT !.enabled = saved.enabled]

\* mergedRules of loadRules
MergedRules(savedRules) ==
    [i \in DOMAIN defaultRules |->
        IF defaultRules[i].id \in RuleIds(savedRules)
        THEN MergeBuiltin(defaultRules[i], SavedById(savedRules, defaultRules[i].id))
        ELSE defaultRules[i]]
    \o SeqFilter(savedRules, LAMBDA r : r.id \notin builtinRuleIds)

\* `custom_${nanoid(8)}`
NewRuleId(n) == <<"custom_1", "custom_2", "custom_3">>[n]

\* a subscriber that does not look at `initialized`
SubscriberUnguarded(newRules, nowInitialized) ==
    /\ Len(saves) < MaxSaves
    /\ saves' = Append(saves, newRules)

\* The subscriber of state.rules: with `initialized`, a changed rules array is
\* handed to save_detection_rules.
Subscriber(newRules, nowInitialized) ==
    IF nowInitialized
    THEN /\ Len(saves) < MaxSaves
         /\ saves' = Append(saves, newRules)
    ELSE saves' = saves

\* set({ rules }) of a new array, and the subscriber
SetRules(newRules) ==
    /\ rules' = newRules
    /\ rulesAreDefaults' = FALSE
    /\ Subscriber(newRules, initialized)

\* loadRules has an answer: the saved rules, or a rejection
LoadRulesReturn(ok) ==
    /\ loading
    /\ loading' = FALSE
    /\ initialized' = TRUE
    /\ IF ok /\ Len(persisted) > 0
       THEN /\ rules' = MergedRules(persisted)
            /\ rulesAreDefaults' = FALSE
            /\ Subscriber(MergedRules(persisted), TRUE)
            /\ lastOp' = [op |-> "loadRules", merged |-> TRUE]
       ELSE /\ UNCHANGED <<rules, rulesAreDefaults, saves>>
            /\ lastOp' = [op |-> "loadRules", merged |-> FALSE]
    /\ UNCHANGED <<persisted, nextRuleId, persistedCustom, removedByUser>>
    /\ UNCHANGED <<fileVars, editorVars, settingsVars, ocrVars, hitVars, footerVars, docVars, taskVars>>

\* save_detection_rules has written the rules it was handed
SaveDone ==
    /\ Len(saves) > 0
    /\ persisted' = Head(saves)
    /\ saves' = Tail(saves)
    /\ persistedCustom' = persistedCustom \cup CustomIds(Head(saves))
    /\ UNCHANGED <<rules, rulesAreDefaults, initialized, loading, nextRuleId, removedByUser>>
    /\ UNCHANGED <<fileVars, editorVars, settingsVars, ocrVars, hitVars, footerVars,
                   docVars, taskVars, lastOp>>

\* save_detection_rules has failed: `.catch((err) => console.error(...))`
SaveFail ==
    /\ Len(saves) > 0
    /\ saves' = Tail(saves)
    /\ UNCHANGED <<rules, rulesAreDefaults, initialized, persisted, loading, nextRuleId,
                   persistedCustom, removedByUser>>
    /\ UNCHANGED <<fileVars, editorVars, settingsVars, ocrVars, hitVars, footerVars,
                   docVars, taskVars, lastOp>>

\* addRule(rule)
addRule(rule) ==
    /\ nextRuleId <= MaxCustomRules
    /\ SetRules(Append(rules, [id |-> NewRuleId(nextRuleId), name |-> rule.name,
                               ruleType |-> rule.ruleType, pattern |-> rule.pattern,
                               enabled |-> rule.enabled]))
    /\ nextRuleId' = nextRuleId + 1

\* updateRule(id, updates), as the new array
updateRule(rs, id, Updated(_)) ==
    [i \in DOMAIN rs |-> IF rs[i].id = id THEN Updated(rs[i]) ELSE rs[i]]

\* toggleRule(id), and the enabled switch of the settings page
ToggleRule(id) ==
    /\ id \in RuleIds(rules)
    /\ SetRules(updateRule(rules, id, LAMBDA r : [r EXCEPT !.enabled = ~r.enabled]))
    /\ UNCHANGED <<initialized, persisted, loading, nextRuleId, persistedCustom,
                   removedByUser>>
    /\ UNCHANGED <<fileVars, editorVars, settingsVars, ocrVars, hitVars, footerVars, docVars, taskVars,
                   lastOp>>

\* removeRule(id)
RemoveRule(id) ==
    /\ id \in RuleIds(rules)
    /\ id \notin builtinRuleIds
    /\ SetRules(SeqFilter(rules, LAMBDA r : r.id # id))
    /\ removedByUser' = removedByUser \cup {id}
    /\ UNCHANGED <<initialized, persisted, loading, nextRuleId, persistedCustom>>
    /\ UNCHANGED <<fileVars, editorVars, settingsVars, ocrVars, hitVars, footerVars, docVars, taskVars,
                   lastOp>>

\* resetRules: set({ rules: defaultRules }), the same array every time
ResetRules ==
    /\ rules' = defaultRules
    /\ rulesAreDefaults' = TRUE
    /\ IF rulesAreDefaults THEN saves' = saves ELSE Subscriber(defaultRules, initialized)
    /\ removedByUser' = removedByUser \cup CustomIds(rules) \cup persistedCustom
    /\ UNCHANGED <<initialized, persisted, loading, nextRuleId, persistedCustom>>
    /\ UNCHANGED <<fileVars, editorVars, settingsVars, ocrVars, hitVars, footerVars, docVars, taskVars,
                   lastOp>>

-----------------------------------------------------------------------------
(* The rule editors *)

\* `new RegExp(pattern)` does not throw.  Of the tokens, "(" opens a group,
\* ")" closes one, a backslash escapes the token after it (and cannot be the
\* last), every other token is a chunk of valid syntax.
RECURSIVE RegExpScan(_, _, _)
RegExpScan(pattern, i, depth) ==
    IF i > Len(pattern) THEN depth = 0
    ELSE IF pattern[i] = "\\"
         THEN i < Len(pattern) /\ RegExpScan(pattern, i + 2, depth)
    ELSE IF pattern[i] = "(" THEN RegExpScan(pattern, i + 1, depth + 1)
    ELSE IF pattern[i] = ")" THEN depth > 0 /\ RegExpScan(pattern, i + 1, depth - 1)
    ELSE RegExpScan(pattern, i + 1, depth)
Compiles(pattern) == RegExpScan(pattern, 1, 0)

\* what the user can type in a name or a pattern field
Names == {<<"n">>, <<" ">>}
Patterns == {<<"a">>, <<"(">>, <<"\\", " ">>}
RuleTypes == {"regex", "keyword"}

\* RuleEditDialog.handleSave, then RulesPanel.handleSaveRule; editing is the id
\* of the rule being edited, or "" when the dialog adds a rule
HandleSave(editing, name, ruleType, pattern) ==
    /\ editing = "" \/ editing \in CustomIds(rules)
    /\ Trim(name) # <<>>
    /\ Trim(pattern) # <<>>
    /\ ruleType = "regex" => Compiles(pattern)
    /\ LET ruleData == [name |-> Trim(name), ruleType |-> ruleType,
                        pattern |-> Trim(pattern), enabled |-> TRUE]
       IN  IF editing # ""
           THEN /\ SetRules(updateRule(rules, editing,
                        LAMBDA r : [id |-> editing, name |-> ruleData.name,
                                    ruleType |-> ruleData.ruleType,
                                    pattern |-> ruleData.pattern,
                                    enabled |-> ruleData.enabled]))
                /\ UNCHANGED nextRuleId
           ELSE addRule(ruleData)
    /\ UNCHANGED <<initialized, persisted, loading, persistedCustom, removedByUser>>
    /\ UNCHANGED <<fileVars, editorVars, settingsVars, ocrVars, hitVars, footerVars, docVars, taskVars,
                   lastOp>>

\* DetectionRulesSettings.handleAdd
HandleAdd(name, ruleType, pattern) ==
    /\ ~(Trim(name) = <<>> \/ Trim(pattern) = <<>>)
    /\ addRule([name |-> Trim(name), ruleType |-> ruleType,
                pattern |-> Trim(pattern), enabled |-> TRUE])
    /\ UNCHANGED <<initialized, persisted, loading, persistedCustom, removedByUser>>
    /\ UNCHANGED <<fileVars, editorVars, settingsVars, ocrVars, hitVars, footerVars, docVars, taskVars,
                   lastOp>>

\* DetectionRulesSettings: onChange of the pattern field of a listed rule
InlinePattern(id, pattern) ==
    /\ id \in CustomIds(rules)
    /\ SetRules(updateRule(rules, id, LAMBDA r : [r EXCEPT !.pattern = pattern]))
    /\ UNCHANGED <<initialized, persisted, loading, nextRuleId, persistedCustom,
                   removedByUser>>
    /\ UNCHANGED <<fileVars, editorVars, settingsVars, ocrVars, hitVars, footerVars, docVars, taskVars,
                   lastOp>>

\* DetectionRulesSettings: onChange of the type select of a listed rule
InlineRuleType(id, ruleType) ==
    /\ id \in CustomIds(rules)
    /\ SetRules(updateRule(rules, id, LAMBDA r : [r EXCEPT !.ruleType = ruleType]))
    /\ UNCHANGED <<initialized, persisted, loading, nextRuleId, persistedCustom,
                   removedByUser>>
    /\ UNCHANGED <<fileVars, editorVars, settingsVars, ocrVars, hitVars, footerVars, docVars, taskVars,
                   lastOp>>

-----------------------------------------------------------------------------
(* useFileStore: documents *)

\* String.prototype.toLowerCase, token by token
toLowerCase(s) == [i \in DOMAIN s |-> IF s[i] = "PDF" THEN "pdf" ELSE s[i]]

\* getFileType: filePath.split(".").pop()?.toLowerCase(); "" stands for null
getFileType(filePath) ==
    LET ext == toLowerCase(Last(Split(filePath, {"."})))
    IN  IF ext \in {<<"pdf">>, <<"txt">>, <<"md">>, <<"docx">>} THEN ext[1] ELSE ""

isSupportedFileType(filePath) == getFileType(filePath) # ""

DocumentIds == {documents[i].id : i \in DOMAIN documents}

\* defaultSettings.cleaning and defaultSettings.verification
defaultCleaning ==
    [documentInfo |-> TRUE, xmpMetadata |-> TRUE, hiddenData |-> TRUE,
     annotations |-> FALSE, forms |-> FALSE, attachments |-> TRUE, javascript |-> TRUE]
defaultVerification ==
    [textRecheck |-> TRUE, imageSampling |-> FALSE, outputReport |-> FALSE]

toggledResetOthers(options, key) ==
    [k \in DOMAIN options |-> IF k = key THEN ~options[k] ELSE FALSE]
\* `{ ...options, [key]: !options[key] }`
toggled(options, key) == [k \in DOMAIN options |-> IF k = key THEN ~options[k] ELSE options[k]]

\* useSettingsStore.toggleCleaning(key)
ToggleCleaning(key) ==
    /\ cleaning' = toggled(cleaning, key)
    /\ UNCHANGED <<mode, outputDirectory, verification>>
    /\ UNCHANGED <<fileVars, editorVars, ocrVars, hitVars, footerVars, ruleVars, docVars, taskVars,
                   lastOp>>

\* useSettingsStore.toggleVerification(key)
ToggleVerification(key) ==
    /\ verification' = toggled(verification, key)
    /\ UNCHANGED <<mode, outputDirectory, cleaning>>
    /\ UNCHANGED <<fileVars, editorVars, ocrVars, hitVars, footerVars, ruleVars, docVars, taskVars,
                   lastOp>>

\* useSettingsStore.updateSettings({ mode })
UpdateSettingsMode(newMode) ==
    /\ mode' = newMode
    /\ UNCHANGED <<outputDirectory, cleaning, verification>>
    /\ UNCHANGED <<fileVars, editorVars, ocrVars, hitVars, footerVars, ruleVars, docVars, taskVars,
                   lastOp>>

\* useSettingsStore.setOutputDirectory(selected), from the directory dialog
SetOutputDirectory(directory) ==
    /\ outputDirectory' = directory
    /\ UNCHANGED <<mode, cleaning, verification>>
    /\ UNCHANGED <<fileVars, editorVars, ocrVars, hitVars, footerVars, ruleVars, docVars, taskVars,
                   lastOp>>

\* addDocuments(paths) up to the first `await loadDocument(placeholder.path)`
AddDocuments(paths) ==
    /\ Len(addCalls) < MaxAddCalls
    /\ LET supportedPaths == SeqFilter(paths, isSupportedFileType)
           placeholders == [i \in DOMAIN supportedPaths |->
                               [id |-> nextId + i - 1, path |-> supportedPaths[i],
                                name |-> NameOfPath(supportedPaths[i]),
                                status |-> "loading"]]
       IN  IF Len(supportedPaths) = 0
           THEN /\ error' = TRUE
                /\ UNCHANGED <<documents, selectedDocumentId, isLoading, addCalls,
                               nextId, outputDirectory>>
           ELSE /\ nextId + Len(placeholders) - 1 <= MaxDocs
                /\ documents' = documents \o placeholders
                /\ selectedDocumentId' = IF selectedDocumentId # Null
                                         THEN selectedDocumentId ELSE placeholders[1].id
                /\ isLoading' = TRUE
                /\ error' = FALSE
                /\ nextId' = nextId + Len(placeholders)
                /\ outputDirectory' =
                       IF Len(documents) = 0 /\ outputDirectory = <<>>
                       THEN getDirectory(supportedPaths[1]) ELSE outputDirectory
                /\ addCalls' = Append(addCalls, placeholders)
    /\ UNCHANGED <<files, selectedFileId, loads, renderVars, mode, cleaning, verification>>
    /\ UNCHANGED <<editorVars, ocrVars, hitVars, footerVars, ruleVars, taskVars, lastOp>>

LoadedStatusStuck(ok) == IF ok THEN "ready" ELSE "loading"
\* the status of a placeholder after loadDocument: "ready" in the try, "error"
\* in the catch
LoadedStatus(ok) == IF ok THEN "ready" ELSE "error"

\* a completion that puts the placeholder back when its document is gone
LoadedOrAdded(docs, placeholder, ok) ==
    IF \E i \in DOMAIN docs : docs[i].id = placeholder.id
    THEN [i \in DOMAIN docs |->
             IF docs[i].id = placeholder.id
             THEN [docs[i] EXCEPT !.status = LoadedStatus(ok)] ELSE docs[i]]
    ELSE Append(docs, [placeholder EXCEPT !.status = LoadedStatus(ok)])

\* state.documents.map((d) => (d.id === placeholder.id ? { ...d, ... } : d))
Loaded(docs, placeholder, ok) ==
    [i \in DOMAIN docs |->
        IF docs[i].id = placeholder.id
        THEN [docs[i] EXCEPT !.status = LoadedStatus(ok)] ELSE docs[i]]

\* loadDocument has answered or thrown for the next placeholder of a call; after
\* the last one, set({ isLoading: false })
LoadDocumentReturn(c, ok) ==
    /\ c \in DOMAIN addCalls
    /\ LET placeholder == Head(addCalls[c])
           rest == Tail(addCalls[c])
       IN  /\ documents' = Loaded(documents, placeholder, ok)
           /\ IF rest = <<>>
              THEN /\ isLoading' = FALSE
                   /\ addCalls' = [i \in 1..(Len(addCalls) - 1) |->
                                      IF i < c THEN addCalls[i] ELSE addCalls[i + 1]]
              ELSE /\ addCalls' = [addCalls EXCEPT ![c] = rest]
                   /\ UNCHANGED isLoading
    /\ UNCHANGED <<selectedDocumentId, error>>
    /\ UNCHANGED <<fileVars, editorVars, settingsVars, ocrVars, hitVars, footerVars,
                   ruleVars, taskVars, lastOp>>

\* removeDocument(id)
RemoveDocument(id) ==
    /\ id \in DocumentIds
    /\ masksByFile' = clearFileMasks(masksByFile, id)
    /\ LET rest == SeqFilter(documents, LAMBDA d : d.id # id)
       IN  /\ documents' = rest
           /\ selectedDocumentId' =
                  IF selectedDocumentId = id
                  THEN (IF Len(rest) > 0 THEN rest[1].id ELSE Null)
                  ELSE selectedDocumentId
    /\ UNCHANGED <<isLoading, error, addCalls>>
    /\ UNCHANGED <<currentFileId, currentPage, drawing, nextMaskId, maskOwner>>
    /\ UNCHANGED <<fileVars, settingsVars, ocrVars, hitVars, footerVars, ruleVars, taskVars, lastOp>>

\* clearDocuments()
ClearDocuments ==
    /\ masksByFile' = EmptyMap
    /\ setCurrentFileId(Null)
    /\ documents' = <<>>
    /\ selectedDocumentId' = Null
    /\ error' = FALSE
    /\ UNCHANGED <<isLoading, addCalls>>
    /\ UNCHANGED <<nextMaskId, maskOwner>>
    /\ UNCHANGED <<fileVars, settingsVars, ocrVars, hitVars, footerVars, ruleVars, taskVars, lastOp>>

\* selectDocument(id)
SelectDocument(id) ==
    /\ id \in DocumentIds
    /\ IF id # selectedDocumentId
       THEN setCurrentFileId(id)
       ELSE UNCHANGED <<currentFileId, currentPage, drawing>>
    /\ selectedDocumentId' = id
    /\ UNCHANGED <<documents, isLoading, error, addCalls>>
    /\ UNCHANGED <<masksByFile, nextMaskId, maskOwner>>
    /\ UNCHANGED <<fileVars, settingsVars, ocrVars, hitVars, footerVars, ruleVars, taskVars, lastOp>>

-----------------------------------------------------------------------------
(* Footer, third generation: one apply_redaction call per ready document *)

\* `redacted_${baseName}.${ext}` under the output directory
OutputPath(directory, fileName) ==
    LET ext == Last(Split(fileName, {"."}))
        baseName == SliceOffEnd(fileName, Len(ext) + 1)
    IN  directory \o <<"/">> \o <<"redacted_">> \o baseName \o <<".">> \o ext

\* the first document at or after index i that the loop does not skip; 0 if none
NextReady(docs, i) ==
    IF \E j \in i..Len(docs) : docs[j].status = "ready"
    THEN CHOOSE j \in i..Len(docs) :
             /\ docs[j].status = "ready"
             /\ \A k \in i..(j - 1) : docs[k].status # "ready"
    ELSE 0

ClosureLive(r) == [documents |-> documents, enabledRules |-> EnabledRules(rules),
                   directory |-> outputDirectory]
\* documents, enabledRules and settings of the handler that is running
Closure(r) == [documents |-> r.documents, enabledRules |-> r.enabledRules,
               directory |-> r.directory]

\* the arguments of applyRedaction for document i of the loop
ApplyRedactionCall(r, i) ==
    LET c == Closure(r)
    IN  [path |-> c.documents[i].path, rules |-> c.enabledRules,
         outputPath |-> OutputPath(c.directory, c.documents[i].name)]

\* how many documents of the handler the loop does not skip
ReadyCount(docs) == Cardinality({i \in DOMAIN docs : docs[i].status = "ready"})

ReportAnySuccess(r) ==
    [shown |-> IF r.successCount > 0 THEN "success" ELSE "error",
     successCount |-> r.successCount, errorCount |-> r.errorCount,
     submitted |-> r.submitted, answers |-> r.answers,
     ready |-> ReadyCount(Closure(r).documents)]
\* after the loop: `if (errorCount === 0) toast.success(...) else toast.error(...)`
Report(r) ==
    [shown |-> IF r.errorCount = 0 THEN "success" ELSE "error",
     successCount |-> r.successCount, errorCount |-> r.errorCount,
     submitted |-> r.submitted, answers |-> r.answers,
     ready |-> ReadyCount(Closure(r).documents)]

\* the loop from document i on: the next call, or the end of the run
LoopFrom(r, i) ==
    LET j == NextReady(Closure(r).documents, i)
    IN  IF j = 0
        THEN /\ processing' = FALSE
             /\ run' = NoRun
             /\ atStart' = NoSnapshot
             /\ outcome' = Report(r)
        ELSE /\ processing' = TRUE
             /\ run' = [r EXCEPT !.i = j, !.call = ApplyRedactionCall(r, j),
                                 !.submitted = Append(@, j)]
             /\ atStart' = IF r.i = 0 THEN Snapshot ELSE atStart
             /\ outcome' = NoOutcome

\* handleStartProcessing up to the first `await applyRedaction(...)`, or to its
\* end when the loop skips every document; the button is
\* `disabled={!hasDocuments || processing}`
HandleStartProcessingDocuments ==
    /\ footer = "documents"
    /\ Len(documents) > 0 /\ ~processing
    /\ IF outputDirectory = <<>>
       THEN /\ outcome' = [shown |-> "selectOutputDir"]
            /\ UNCHANGED <<processing, run, atStart>>
       ELSE IF Len(EnabledRules(rules)) = 0
       THEN /\ outcome' = [shown |-> "selectAtLeastOneRule"]
            /\ UNCHANGED <<processing, run, atStart>>
       ELSE LoopFrom([on |-> TRUE, documents |-> documents,
                      enabledRules |-> EnabledRules(rules),
                      directory |-> outputDirectory, i |-> 0, call |-> <<>>,
                      submitted |-> <<>>, answers |-> <<>>,
                      successCount |-> 0, errorCount |-> 0],
                     1)
    /\ UNCHANGED <<footer, masksByPage, request, job>>
    /\ UNCHANGED <<fileVars, editorVars, settingsVars, ocrVars, hitVars, ruleVars, docVars, taskVars,
                   lastOp>>

CountedSuccessOnly(r, success) ==
    [r EXCEPT !.successCount = IF success THEN @ + 1 ELSE @,
              !.answers = Append(@, success)]
\* the counters after an answer of applyRedaction: `result.success` counts as a
\* success, every other answer and an exception as an error (answers observes
\* what came back, in order)
Counted(r, success) ==
    [r EXCEPT !.successCount = IF success THEN @ + 1 ELSE @,
              !.errorCount = IF success THEN @ ELSE @ + 1,
              !.answers = Append(@, success)]

\* applyRedaction has answered (success or not) or thrown; the loop goes on
ApplyRedactionReturn(success) ==
    /\ footer = "documents"
    /\ run.on
    /\ LoopFrom(Counted(run, success), run.i + 1)
    /\ UNCHANGED <<footer, masksByPage, request, job>>
    /\ UNCHANGED <<fileVars, editorVars, settingsVars, ocrVars, hitVars, ruleVars, docVars, taskVars,
                   lastOp>>

-----------------------------------------------------------------------------
(* useProcessingStore: the task queue *)

QueuedTask(fileId) ==
    [fileId |-> fileId, status |-> "queued", progress |-> 0,
     currentStep |-> "waiting", error |-> FALSE]

TaskFrame == UNCHANGED <<fileVars, editorVars, settingsVars, ocrVars, hitVars,
                         footerVars, ruleVars, docVars, lastOp>>

startProcessing(fileIds) ==
    /\ tasks' = [i \in DOMAIN fileIds |-> QueuedTask(fileIds[i])]
    /\ isRunning' = TRUE
    /\ pausedNow' = FALSE
    /\ TaskFrame

pauseProcessing ==
    /\ isRunning' = FALSE
    /\ tasks' = [i \in DOMAIN tasks |->
                    IF tasks[i].status = "running"
                    THEN [tasks[i] EXCEPT !.status = "paused"] ELSE tasks[i]]
    /\ pausedNow' = TRUE
    /\ TaskFrame

resumeProcessing ==
    /\ isRunning' = TRUE
    /\ tasks' = [i \in DOMAIN tasks |->
                    IF tasks[i].status = "paused"
                    THEN [tasks[i] EXCEPT !.status = "queued"] ELSE tasks[i]]
    /\ pausedNow' = FALSE
    /\ TaskFrame

cancelTask(fileId) ==
    /\ tasks' = SeqFilter(tasks, LAMBDA t : t.fileId # fileId)
    /\ UNCHANGED <<isRunning, pausedNow>>
    /\ TaskFrame

retryTask(fileId) ==
    /\ tasks' = [i \in DOMAIN tasks |->
                    IF tasks[i].fileId = fileId
                    THEN [tasks[i] EXCEPT !.status = "queued", !.progress = 0,
                                          !.error = FALSE]
                    ELSE tasks[i]]
    /\ UNCHANGED <<isRunning, pausedNow>>
    /\ TaskFrame

\* a progress update writes the status "running", whatever the status before
updateTaskProgress(fileId, progress, step) ==
    /\ tasks' = [i \in DOMAIN tasks |->
                    IF tasks[i].fileId = fileId
                    THEN [tasks[i] EXCEPT !.progress = progress, !.currentStep = step,
                                          !.status = "running"]
                    ELSE tasks[i]]
    /\ UNCHANGED <<isRunning, pausedNow>>
    /\ TaskFrame

setTaskStatus(fileId, status, err) ==
    /\ tasks' = [i \in DOMAIN tasks |->
                    IF tasks[i].fileId = fileId
                    THEN [tasks[i] EXCEPT !.status = status, !.error = err]
                    ELSE tasks[i]]
    /\ UNCHANGED <<isRunning, pausedNow>>
    /\ TaskFrame

clearTasks ==
    /\ tasks' = <<>>
    /\ isRunning' = FALSE
    /\ pausedNow' = FALSE
    /\ TaskFrame

-----------------------------------------------------------------------------
(* The state after construction *)

RenderInit == renderTasks = {} /\ currentRenderTask = Null /\ nextRenderId = 1
FileInit ==
    /\ files = <<>> /\ selectedFileId = Null /\ nextId = 1 /\ loads = {}
    /\ RenderInit
EditorInit ==
    /\ currentFileId = Null /\ currentPage = 0 /\ drawing = NoDrawing
    /\ masksByFile = EmptyMap /\ nextMaskId = 1 /\ maskOwner = EmptyMap
SettingsInit ==
    /\ mode = "redact" /\ outputDirectory = <<>>
    /\ cleaning = defaultCleaning /\ verification = defaultVerification
OcrInit ==
    /\ currentEngine = "paddle" /\ engineStatus = NoStatus /\ dialogOpen = FALSE
    /\ engineSwitch = NoSwitch /\ statusLoad = NoLoad /\ backendEngine = "paddle"
HitInit ==
    /\ hitsByFile = EmptyMap /\ addedHitsByFile = EmptyMap /\ hitMaskIds = EmptyMap
    /\ scan = NoScan /\ needsOcr = FALSE /\ detectCall = NoCall
    /\ panel = "store" /\ localHits = NoLocalHits
FooterInit ==
    /\ masksByPage = EmptyMap /\ processing = FALSE /\ request = NoRequest
    /\ run = NoRun /\ atStart = NoSnapshot /\ outcome = NoOutcome /\ job = NoJob
RuleInit ==
    /\ rules = defaultRules /\ rulesAreDefaults = TRUE /\ initialized = FALSE
    /\ saves = <<>> /\ nextRuleId = 1 /\ removedByUser = {}
DocInit ==
    /\ documents = <<>> /\ selectedDocumentId = Null /\ isLoading = FALSE
    /\ error = FALSE /\ addCalls = <<>>
TaskInit ==
    /\ tasks = <<>> /\ isRunning = FALSE /\ pausedNow = FALSE

-----------------------------------------------------------------------------
(* Files, the page list and the first Footer *)

PathA == <<"d", "/", "a", ".", "pdf">>
PathB == <<"d", "/", "redacted_", "a", ".", "pdf">>
PathChoices == {<<PathA>>, <<PathA, PathB>>}

\* what loadPdf can answer: a document of one page, or of as many as there can be
PageCounts == {1, MaxPages}

\* the load_detection_rules call of the startup has not answered
NoRulesIO == persisted = <<>> /\ loading = TRUE /\ persistedCustom = {}

\* no run of the effect in flight has closed over the values a new run would
NoSameLoad ==
    HasSelectedFile =>
        SameLoads([id |-> selectedFileId,
                   pageCount |-> FileById(selectedFileId).pageCount]) = {}

InitPages ==
    /\ FileInit /\ EditorInit /\ SettingsInit /\ OcrInit /\ HitInit /\ FooterInit
    /\ RuleInit /\ NoRulesIO /\ DocInit /\ TaskInit
    /\ footer = "masksByFile"
    /\ lastOp = [op |-> "none"]

NextPages ==
    \/ \E paths \in PathChoices : AddFiles(paths)
    \/ \E id \in FileIds : SelectFile(id)
    \/ NoSameLoad /\ LoadAndRenderStart
    \/ \E load \in loads : \E numPages \in PageCounts : LoadAndRenderDone(load, numPages)
    \/ \E pageIndex \in 0..(MaxPages - 1) : HandleDelete(pageIndex)
    \/ HandleStartProcessing
    \/ \E result \in ProcessResults : ProcessReturn(result)

SpecPages == InitPages /\ [][NextPages]_vars

\* C4: every file with a non-empty page list keeps at least one page whose
\* action is not delete, whatever handleDelete and setPageCount have done.
C4_SomePageKept ==
    \A i \in DOMAIN files :
        Len(files[i].pages) > 0 => nonDeletedCount(files[i].pages) >= 1

\* a delete went through and left the file with one page deleted, one kept
C4_Witness ==
    /\ lastOp.op = "handleDelete" /\ lastOp.wrote
    /\ \E i \in DOMAIN files :
          /\ files[i].id = selectedFileId
          /\ Len(files[i].pages) = 2
          /\ nonDeletedCount(files[i].pages) = 1

\* C5: a delete asked of the only page not deleted writes nothing (the files
\* stay as they were), and no request in flight names a file whose pages are
\* all deleted.
C5_LastPageDeleteRejected ==
    /\ [][\A pageIndex \in 0..(MaxPages - 1) :
            (/\ HandleDelete(pageIndex)
             /\ FileById(selectedFileId).pages[pageIndex + 1] # "delete"
             /\ nonDeletedCount(FileById(selectedFileId).pages) = 1)
            => (files' = files /\ ~lastOp'.wrote)]_vars
    /\ [](request.on =>
            \A i \in DOMAIN request.files :
                Len(request.files[i].pages) > 0
                    => nonDeletedCount(request.files[i].pages) >= 1)

\* the last page not deleted was asked to be deleted, and a request went out
C5_Witness ==
    /\ lastOp.op = "handleDelete" /\ ~lastOp.wrote
    /\ request.on
    /\ \E i \in DOMAIN request.files :
          /\ Len(request.files[i].pages) = 2
          /\ nonDeletedCount(request.files[i].pages) = 1

-----------------------------------------------------------------------------
(* Two loaded files, the canvas and the detection panel *)

LoadedFile(id, path) ==
    [id |-> id, path |-> path, pageCount |-> MaxPages,
     pages |-> [p \in 1..MaxPages |-> "keep"]]

\* addFiles(paths) and the page counts, as loadAndRender leaves them
FilesLoaded(paths) ==
    /\ files = [i \in DOMAIN paths |-> LoadedFile(i, paths[i])]
    /\ selectedFileId = 1 /\ nextId = Len(paths) + 1 /\ loads = {}
    /\ RenderInit
    /\ currentFileId = 1 /\ currentPage = 0 /\ drawing = NoDrawing
    /\ masksByFile = EmptyMap /\ nextMaskId = 1 /\ maskOwner = EmptyMap
    /\ mode = "redact" /\ outputDirectory = getDirectory(paths[1])
    /\ cleaning = defaultCleaning /\ verification = defaultVerification

\* where the pointer can be: the corner of the canvas, its middle, and right of
\* it (the container is wider than the canvas, and the pointer is captured)
Pointers == {<<40, 40>>, <<140, 140>>, <<280, 140>>}

\* what detectSensitiveContent can answer
TextHit == [page |-> 0, bbox |-> [x |-> 100, y |-> 100, width |-> 300, height |-> 200]]
EmptyMatchHit == [page |-> 1, bbox |-> [x |-> 100, y |-> 100, width |-> 0, height |-> 200]]
HitLists == {<<>>, <<TextHit>>, <<TextHit, EmptyMatchHit>>}

InitMasks ==
    /\ FilesLoaded(<<PathA>>) /\ OcrInit /\ HitInit /\ FooterInit
    /\ RuleInit /\ NoRulesIO /\ DocInit /\ TaskInit
    /\ footer = "masksByFile"
    /\ lastOp = [op |-> "none"]

NextMasks ==
    \/ \E id \in FileIds : RemoveFile(id)
    \/ \E page \in 0..(MaxPages - 1) : SetCurrentPage(page)
    \/ \E pt \in Pointers : StartDrawing(pt[1], pt[2])
    \/ \E pt \in Pointers : UpdateDrawing(pt[1], pt[2])
    \/ FinishDrawing
    \/ \E maskId \in 1..MaxMasks : RemoveMask(maskId)
    \/ \E paddle \in BOOLEAN : LoadStatusReturn(paddle)
    \/ RunDetection
    \/ \E imagePageCount \in 0..1 : \E results \in HitLists :
          DetectReturn(imagePageCount, results)
    \/ DetectFail
    \/ \E hitIndex \in 0..1 : AddHitAsMask(hitIndex)
    \/ \E hitIndex \in 0..1 : RemoveHitMask(hitIndex)

SpecMasks == InitMasks /\ [][NextMasks]_vars

StoredMasks ==
    UNION {UNION {Range(masksByFile[f][p]) : p \in DOMAIN masksByFile[f]} :
              f \in DOMAIN masksByFile}

\* C6: every stored mask lies within its page and has a positive size:
\* 0 <= x, 0 <= y, x + width <= 1, y + height <= 1, width > 0, height > 0.
C6_MasksWithinPage ==
    \A m \in StoredMasks :
        /\ 0 <= m.x /\ 0 <= m.y
        /\ m.x + m.width <= One /\ m.y + m.height <= One
        /\ m.width > 0 /\ m.height > 0

\* C7: a mask of zero width or zero height is stored by neither finishDrawing
\* nor addMask.
C7_EmptyMaskRejected ==
    (/\ lastOp.op \in {"finishDrawing", "addMask"}
     /\ lastOp.empty)
        => ~lastOp.stored

FileMasks(fileId) ==
    LET fileMasks == Get(masksByFile, fileId, EmptyMap)
    IN  UNION {Range(fileMasks[p]) : p \in DOMAIN fileMasks}

\* the mask that was made of hit hitIndex is stored for the file
HitMaskStored(fileId, hitIndex) ==
    /\ hitIndex \in DOMAIN hitMaskIds
    /\ \E m \in FileMasks(fileId) : m.id = hitMaskIds[hitIndex]

\* C24: for every file, a hit is marked as added exactly when the mask made of
\* it is still stored for that file.
C24_AddedIffMaskStored ==
    \A fileId \in FileIds :
        \A h \in DOMAIN getHits(fileId) :
            (h - 1 \in getAddedHits(fileId)) <=> HitMaskStored(fileId, h - 1)

-----------------------------------------------------------------------------
(* A run of each generation of Footer, with the user at work meanwhile *)

PathBin == <<"d", "/", "a", ".", "bin">>
PathUpper == <<"d", "/", "a", ".", "PDF">>
DocumentPathChoices == {<<PathA, PathB>>, <<PathUpper>>, <<PathBin>>}
DirectoryChoices == {<<"o">>}

InitRun ==
    /\ footer \in {"masksByFile", "masksByPage", "documents"}
    /\ IF footer = "documents"
       THEN FileInit /\ EditorInit /\ SettingsInit
       ELSE FilesLoaded(<<PathA, PathB>>)
    /\ OcrInit /\ HitInit /\ FooterInit /\ RuleInit /\ NoRulesIO /\ DocInit /\ TaskInit
    /\ lastOp = [op |-> "none"]

NextRun ==
    \/ \E id \in FileIds : SelectFile(id)
    \/ StartDrawing(40, 40)
    \/ UpdateDrawing(140, 140)
    \/ FinishDrawing
    \/ LegacyFinishDrawing
    \/ HandleDelete(0)
    \/ HandleStartProcessing
    \/ \E result \in ProcessResults : ProcessReturn(result)
    \/ footer = "documents" /\ \E paths \in DocumentPathChoices : AddDocuments(paths)
    \/ \E c \in 1..MaxAddCalls : \E ok \in BOOLEAN : LoadDocumentReturn(c, ok)
    \/ \E id \in DocumentIds : RemoveDocument(id)
    \/ footer = "documents" /\ \E directory \in DirectoryChoices :
                                  SetOutputDirectory(directory)
    \/ footer = "documents" /\ ToggleRule("email")
    \/ HandleStartProcessingDocuments
    \/ \E success \in BOOLEAN : ApplyRedactionReturn(success)

SpecRun == InitRun /\ [][NextRun]_vars

\* C1: the output path handed to applyRedaction is the path of no document of
\* the batch.
C1_OutputIsNoInput ==
    run.on =>
        \A i \in DOMAIN run.documents :
            run.documents[i].status = "ready"
                => run.call.outputPath # run.documents[i].path

\* C2: what a run sends is built from the masks, the page actions, the rules and
\* the output directory as they were when handleStartProcessing started,
\* whatever the user has changed since.
C2_RunUsesStartState ==
    /\ request.on =>
          request = IF footer = "masksByFile"
                    THEN BuildRequest(atStart.files, atStart.masksByFile,
                                      atStart.outputDirectory)
                    ELSE BuildRequestByPage(atStart.files, atStart.masksByPage,
                                            atStart.outputDirectory)
    /\ run.on =>
          /\ atStart.documents[run.i].status = "ready"
          /\ run.call = [path |-> atStart.documents[run.i].path,
                         rules |-> EnabledRules(atStart.rules),
                         outputPath |-> OutputPath(atStart.outputDirectory,
                                                   atStart.documents[run.i].name)]

\* the second call of a run is in flight and the enabled rules are no longer
\* those of the start
C2_Witness ==
    /\ run.on /\ run.i = 2
    /\ EnabledRules(rules) # EnabledRules(atStart.rules)

\* the masks of a page that were made for a file, as a run finds them
OwnMasks(snapshot, fileId, page) ==
    IF footer = "masksByFile"
    THEN Get(getMasksByPage(snapshot.masksByFile, fileId), page, <<>>)
    ELSE SeqFilter(Get(snapshot.masksByPage, page, <<>>),
                   LAMBDA m : snapshot.maskOwner[m.id] = fileId)

\* C3: each job of a request carries exactly the masks stored for its own file.
C3_JobCarriesOwnMasks ==
    request.on =>
        \A i \in DOMAIN request.files : \A page \in 0..(MaxPages - 1) :
            LET own == OwnMasks(atStart, atStart.files[i].id, page)
            IN  Get(request.files[i].masks_by_page, page, <<>>)
                    = [k \in DOMAIN own |-> StripMask(own[k])]

-----------------------------------------------------------------------------
(* The detection rules, their editors and the saved rules *)

CustomRule0 == [id |-> "custom_0", name |-> <<"n">>, ruleType |-> "keyword",
                pattern |-> <<"a">>, enabled |-> TRUE]

\* saved by this version: the builtin rules, email switched on, one custom rule
SavedByThisVersion ==
    [i \in DOMAIN defaultRules |->
        IF defaultRules[i].id = "email"
        THEN [defaultRules[i] EXCEPT !.enabled = TRUE] ELSE defaultRules[i]]
    \o <<CustomRule0>>

\* saved by an older version: another definition of a builtin rule, switched
\* off, a builtin rule since retired, one custom rule
SavedByOlderVersion ==
    << [id |-> "id_card_cn", name |-> <<"id">>, ruleType |-> "regex",
        pattern |-> <<"\\d{15}">>, enabled |-> FALSE],
       [id |-> "old_builtin", name |-> <<"old">>, ruleType |-> "keyword",
        pattern |-> <<"a">>, enabled |-> TRUE],
       CustomRule0 >>

SavedChoices == {<<>>, SavedByThisVersion, SavedByOlderVersion}
ToggledIds == {"email"}
RemovedIds == {"custom_0", "custom_1"}
EditedIds == {"custom_1"}

InitRules ==
    /\ FileInit /\ EditorInit /\ SettingsInit /\ OcrInit /\ HitInit /\ FooterInit
    /\ RuleInit /\ DocInit /\ TaskInit
    /\ footer = "documents"
    /\ persisted \in SavedChoices
    /\ loading = TRUE
    /\ persistedCustom = CustomIds(persisted)
    /\ lastOp = [op |-> "none"]

NextRules ==
    \/ \E ok \in BOOLEAN : LoadRulesReturn(ok)
    \/ SaveDone
    \/ SaveFail
    \/ \E id \in ToggledIds : ToggleRule(id)
    \/ \E id \in RemovedIds : RemoveRule(id)
    \/ ResetRules
    \/ \E editing \in {""} \cup EditedIds : \E name \in Names :
          \E ruleType \in RuleTypes : \E pattern \in Patterns :
             HandleSave(editing, name, ruleType, pattern)
    \/ \E name \in Names : \E ruleType \in RuleTypes : \E pattern \in Patterns :
          HandleAdd(name, ruleType, pattern)
    \/ \E id \in EditedIds : \E pattern \in Patterns : InlinePattern(id, pattern)
    \/ \E id \in EditedIds : \E ruleType \in RuleTypes : InlineRuleType(id, ruleType)

SpecRules == InitRules /\ [][NextRules]_vars

\* C28: save_detection_rules is invoked only when loadRules has completed and
\* initialized is true, so no save is pending while initialized is false; once
\* initialized, every step that changes the rule list invokes one save, and
\* that save carries the new list.
C28_SavesFollowInitialization ==
    /\ [](~initialized => saves = <<>>)
    /\ [][(Len(saves') > Len(saves)) => (initialized' /\ ~loading')]_vars
    /\ [][(initialized /\ rules' # rules) => saves' = Append(saves, rules')]_vars

C28_Witness ==
    /\ initialized /\ persisted = <<>>
    /\ Len(saves) = 1 /\ saves[1] = rules /\ rules # defaultRules

\* C29: when the last pending save_detection_rules call completes, written or
\* failed, the persisted rules are the rules in memory.
C29_PersistedIsCurrent ==
    [][(Len(saves) > 0 /\ saves' = <<>>) => persisted' = rules']_vars

\* C8: a custom rule that was persisted stays in the persisted rules unless the
\* user removed it with removeRule or resetRules.
C8_CustomRuleKept == (persistedCustom \ removedByUser) \subseteq RuleIds(persisted)

\* the rules after a load of the saved rules S, stated from S and the builtin rules
AfterLoad(S, rs) ==
    LET n == Len(defaultRules)
        custom == {i \in DOMAIN S : S[i].id \notin builtinRuleIds}
    IN  /\ Len(rs) = n + Cardinality(custom)
        /\ \A i \in 1..n :
              /\ rs[i].id = defaultRules[i].id
              /\ rs[i].name = defaultRules[i].name
              /\ rs[i].ruleType = defaultRules[i].ruleType
              /\ rs[i].pattern = defaultRules[i].pattern
              /\ \A j \in DOMAIN S : S[j].id = rs[i].id => rs[i].enabled = S[j].enabled
              /\ (\A j \in DOMAIN S : S[j].id # rs[i].id)
                    => rs[i].enabled = defaultRules[i].enabled
        /\ \A k \in 1..Cardinality(custom) :
              /\ rs[n + k].id \notin builtinRuleIds
              /\ \E j \in custom :
                    /\ rs[n + k] = S[j]
                    /\ Cardinality({i \in custom : i <= j}) = k

\* C9: when loadRules has loaded a non-empty saved set S, the rules are every
\* builtin rule once, in builtin order, with its current name, type and
\* pattern and the enabled flag S has for it (its default if S has none),
\* followed by the rules of S that are not builtin, unchanged and in order.
C9_LoadMergesSaved ==
    [][(loading /\ ~loading' /\ lastOp'.op = "loadRules" /\ lastOp'.merged)
          => AfterLoad(persisted, rules')]_vars

\* the rules saved by an older version have been loaded
C9_Witness ==
    /\ lastOp.op = "loadRules" /\ lastOp.merged
    /\ "old_builtin" \in RuleIds(rules)

\* C10: no regex rule of the store has a pattern that does not compile.
C10_RegexRulesCompile ==
    \A i \in DOMAIN rules : rules[i].ruleType = "regex" => Compiles(rules[i].pattern)

-----------------------------------------------------------------------------
(* The checks of handleStartProcessing before a run, in each generation *)

\* ProcessingSettings.mode
Modes == {"check", "redact", "searchable"}
SwitchedOffIds == {"id_card_cn", "phone_cn"}

InitStart ==
    /\ footer \in {"masksByFile", "masksByPage", "documents"}
    /\ IF footer = "documents"
       THEN FileInit /\ EditorInit /\ SettingsInit
       ELSE FilesLoaded(<<PathA>>)
    /\ OcrInit /\ HitInit /\ FooterInit /\ RuleInit /\ NoRulesIO /\ DocInit /\ TaskInit
    /\ lastOp = [op |-> "none"]

NextStart ==
    \/ \E newMode \in Modes : UpdateSettingsMode(newMode)
    \/ \E paddle \in BOOLEAN : LoadStatusReturn(paddle)
    \/ \E id \in SwitchedOffIds : ToggleRule(id)
    \/ HandleStartProcessing
    \/ \E result \in ProcessResults : ProcessReturn(result)
    \/ footer = "documents" /\ AddDocuments(<<PathA>>)
    \/ \E ok \in BOOLEAN : LoadDocumentReturn(1, ok)
    \/ HandleStartProcessingDocuments
    \/ \E success \in BOOLEAN : ApplyRedactionReturn(success)

SpecStart == InitStart /\ [][NextStart]_vars

\* the configuration errors: the mode needs OCR and the active engine is not
\* installed, no output directory is set, or no rule is enabled
ConfigError ==
    \/ mode = "searchable" /\ ~isOcrReady
    \/ outputDirectory = <<>>
    \/ Len(EnabledRules(rules)) = 0

\* C11: on a configuration error handleStartProcessing sends no process request
\* and no redaction request, and the processing flag stays false.
C11_ConfigErrorRefused ==
    [][((HandleStartProcessing \/ HandleStartProcessingDocuments) /\ ConfigError)
          => (~processing' /\ request' = request /\ run' = run)]_vars

-----------------------------------------------------------------------------
(* A batch of documents: addDocuments, the loads, and a run of each Footer *)

PathOther == <<"e", "/", "a", ".", "pdf">>
BatchPathChoices == {<<PathA, PathOther>>, <<PathA, PathBin>>, <<PathBin>>}

InitBatch ==
    /\ footer \in {"masksByFile", "masksByPage", "documents"}
    /\ IF footer = "documents"
       THEN FileInit /\ EditorInit /\ SettingsInit
       ELSE FilesLoaded(<<PathA>>)
    /\ OcrInit /\ HitInit /\ FooterInit /\ RuleInit /\ NoRulesIO /\ DocInit /\ TaskInit
    /\ lastOp = [op |-> "none"]

NextBatch ==
    \/ footer = "documents" /\ \E paths \in BatchPathChoices : AddDocuments(paths)
    \/ \E c \in 1..MaxAddCalls : \E ok \in BOOLEAN : LoadDocumentReturn(c, ok)
    \/ \E id \in DocumentIds : RemoveDocument(id)
    \/ \E id \in DocumentIds : SelectDocument(id)
    \/ HandleStartProcessing
    \/ \E result \in ProcessResults : ProcessReturn(result)
    \/ HandleStartProcessingDocuments
    \/ \E success \in BOOLEAN : ApplyRedactionReturn(success)

SpecBatch == InitBatch /\ [][NextBatch]_vars

\* the run so far: the documents submitted are ready ones, in order and without
\* repetition, none before the one in flight was passed over, and every answer
\* but the one awaited has been counted
RunSoFar(r) ==
    /\ \A k \in DOMAIN r.submitted : r.documents[r.submitted[k]].status = "ready"
    /\ \A k \in 1..(Len(r.submitted) - 1) : r.submitted[k] < r.submitted[k + 1]
    /\ \A j \in DOMAIN r.documents :
          (j <= r.i /\ r.documents[j].status = "ready") => j \in Range(r.submitted)
    /\ r.successCount + r.errorCount = Len(r.submitted) - 1
    /\ Len(r.answers) = Len(r.submitted) - 1

\* the report of a run of the third Footer
IsReport(o) == "answers" \in DOMAIN o

\* the placeholder of this id still waits for its loadDocument call
Pending(calls, id) ==
    \E c \in DOMAIN calls : \E k \in DOMAIN calls[c] : calls[c][k].id = id

\* C12: a failed load leaves the other placeholders of the call waiting for
\* their own load; a run submits each ready document exactly once whatever the
\* answers, and at its end successCount + errorCount is the number of ready
\* documents.
C12_FailureDoesNotAbort ==
    /\ [](run.on => RunSoFar(run))
    /\ [](IsReport(outcome) =>
             /\ Len(outcome.submitted) = outcome.ready
             /\ \A k \in 1..(Len(outcome.submitted) - 1) :
                   outcome.submitted[k] < outcome.submitted[k + 1]
             /\ outcome.successCount + outcome.errorCount = outcome.ready)
    /\ [][\A c \in 1..MaxAddCalls :
            LoadDocumentReturn(c, FALSE)
                => \A k \in 2..Len(addCalls[c]) : Pending(addCalls', addCalls[c][k].id)]_vars

\* the first document failed to load, the second was loaded all the same, and
\* the run that submitted it ended although applyRedaction failed
C12_Witness ==
    /\ Len(documents) = 2
    /\ documents[1].status = "error" /\ documents[2].status = "ready"
    /\ IsReport(outcome)
    /\ outcome.submitted = <<2>> /\ outcome.errorCount = 1

C16_OutputPathsDistinct ==
    run.on =>
        \A i \in DOMAIN run.documents : \A j \in DOMAIN run.documents :
            (/\ run.documents[i].status = "ready" /\ run.documents[j].status = "ready"
             /\ run.documents[i].path # run.documents[j].path)
                => ApplyRedactionCall(run, i).outputPath
                       # ApplyRedactionCall(run, j).outputPath

\* C19: a document is created loading; the return of its loadDocument call makes
\* it ready on success and error on failure; a document that is ready or error
\* stays so; a loading document always has its load ahead (so none is left
\* loading when its call ends), and the call ends with isLoading false.
C19_LoadingEnds ==
    /\ [](\A i \in DOMAIN documents :
             /\ documents[i].status \in {"loading", "ready", "error"}
             /\ documents[i].status = "loading" => Pending(addCalls, documents[i].id))
    /\ [][\A j \in DOMAIN documents' :
            IF documents'[j].id \in DocumentIds
            THEN \A i \in DOMAIN documents :
                    (documents[i].id = documents'[j].id /\ documents[i].status # "loading")
                       => documents'[j].status = documents[i].status
            ELSE documents'[j].status = "loading"]_vars
    /\ [][\A c \in 1..MaxAddCalls : \A ok \in BOOLEAN :
            LoadDocumentReturn(c, ok)
               => /\ \A j \in DOMAIN documents' :
                        documents'[j].id = Head(addCalls[c]).id
                           => documents'[j].status = (IF ok THEN "ready" ELSE "error")
                  /\ Len(addCalls[c]) = 1 => ~isLoading']_vars

\* a call of two documents has ended, one ready, the other in error
C19_Witness ==
    /\ addCalls = <<>> /\ ~isLoading
    /\ \E i \in DOMAIN documents : documents[i].status = "ready"
    /\ \E i \in DOMAIN documents : documents[i].status = "error"

\* C20: a call of addDocuments with a path of an unsupported format sets the
\* error, also when other paths are supported; no unsupported path becomes a
\* document, and every supported path of the call does.
C20_UnsupportedReported ==
    [][\A paths \in BatchPathChoices :
          (/\ AddDocuments(paths)
           /\ \E i \in DOMAIN paths : ~isSupportedFileType(paths[i]))
             => /\ error'
                /\ \A j \in DOMAIN documents' : isSupportedFileType(documents'[j].path)
                /\ \A i \in DOMAIN paths :
                      isSupportedFileType(paths[i])
                         => \E j \in DOMAIN documents' : documents'[j].path = paths[i]]_vars

-----------------------------------------------------------------------------
(* Scans of one file, with the OCR engine switched meanwhile *)

\* two hits of one line of page 0 that overlap:
\* {x: 0.10, y: 0.10, w: 0.05, h: 0.02} and {x: 0.14, y: 0.10, w: 0.05, h: 0.02}
HitLeft == [page |-> 0, bbox |-> [x |-> 100, y |-> 100, width |-> 50, height |-> 20]]
HitRight == [page |-> 0, bbox |-> [x |-> 140, y |-> 100, width |-> 50, height |-> 20]]
OverlappingHits == <<HitLeft, HitRight>>
ScanHitLists == {<<>>, OverlappingHits}
Engines == {"paddle", "tesseract"}

InitScan ==
    /\ FilesLoaded(<<PathA>>) /\ OcrInit /\ HitInit /\ FooterInit
    /\ RuleInit /\ NoRulesIO /\ DocInit /\ TaskInit
    /\ footer = "masksByFile"
    /\ lastOp = [op |-> "none"]

NextScan ==
    \/ \E paddle \in BOOLEAN : LoadStatusReturn(paddle)
    \/ \E engine \in Engines : SetCurrentEngine(engine)
    \/ \E ok \in BOOLEAN : SetOcrEngineReturn(ok)
    \/ \E ok, paddle, tesseract \in BOOLEAN : GetOcrEngineStatusReturn(ok, paddle, tesseract)
    \/ RunDetection
    \/ \E imagePageCount \in 0..1 : \E results \in ScanHitLists :
          DetectReturn(imagePageCount, results)
    \/ DetectFail
    \/ \E imagePageCount \in 0..1 : DetectCallFail(imagePageCount)
    \/ \E hitIndex \in 0..1 : AddHitAsMask(hitIndex)
    \/ \E hitIndex \in 0..1 : RemoveHitMask(hitIndex)
    \/ AddAllHitsAsMasks

SpecScan == InitScan /\ [][NextScan]_vars

\* C14: a scan met with an OCR engine that is not installed is not aborted but
\* goes on to native-text-only detection (useOcr = false); useOcr = true is
\* handed to the detection only when the active engine is installed.
C14_MissingEngineFallsBack ==
    /\ ~needsOcr
    /\ (detectCall.made /\ detectCall.useOcr) => detectCall.installed

\* the installed flag of the active engine, read from the store as it stands
ActiveEngineInstalled ==
    /\ engineStatus.on
    /\ IF currentEngine = "tesseract" THEN engineStatus.tesseract ELSE engineStatus.paddle

PageMasks(m, fileId, page) == Get(Get(m, fileId, EmptyMap), page, <<>>)
Covers(mask, hit) ==
    /\ mask.x <= hit.bbox.x /\ mask.y <= hit.bbox.y
    /\ mask.x + mask.width >= hit.bbox.x + hit.bbox.width
    /\ mask.y + mask.height >= hit.bbox.y + hit.bbox.height

\* C17: two overlapping hits of one page, turned into masks together, make one
\* mask that spans both hits, not two masks.
C17_OverlappingHitsMerged ==
    [][(/\ AddAllHitsAsMasks
        /\ getHits(selectedFileId) = OverlappingHits
        /\ getAddedHits(selectedFileId) = {})
          => LET before == PageMasks(masksByFile, selectedFileId, 0)
                 after == PageMasks(masksByFile', selectedFileId, 0)
             IN  /\ Len(after) = Len(before) + 1
                 /\ \E mask \in Range(after) :
                       Covers(mask, HitLeft) /\ Covers(mask, HitRight)]_vars

AllHitsAdded(fileId) ==
    getAddedHits(fileId) = {h - 1 : h \in DOMAIN getHits(fileId)}

\* C18: converting hits into masks again changes no mask: addAllHitsAsMasks
\* marks every hit of the file as added, addAllHitsAsMasks on a file whose hits
\* are all added leaves the masks as they are, and so does addHitAsMask on a
\* hit that is already added.
C18_ConvertingAgainKeepsMasks ==
    /\ [][AddAllHitsAsMasks => AllHitsAdded(selectedFileId)']_vars
    /\ [][(AddAllHitsAsMasks /\ AllHitsAdded(selectedFileId))
             => masksByFile' = masksByFile]_vars
    /\ [][\A hitIndex \in 0..1 :
             (AddHitAsMask(hitIndex) /\ hitIndex \in getAddedHits(selectedFileId))
                => masksByFile' = masksByFile]_vars

\* both hits have their masks, and addAllHitsAsMasks has run again and added none
C18_Witness ==
    /\ lastOp = [op |-> "addAllHitsAsMasks", added |-> 0]
    /\ getHits(selectedFileId) = OverlappingHits
    /\ Len(PageMasks(masksByFile, selectedFileId, 0)) = 2

-----------------------------------------------------------------------------
(* The options of useSettingsStore *)

CleaningKeys == DOMAIN defaultCleaning
VerificationKeys == DOMAIN defaultVerification

InitOptions ==
    /\ FileInit /\ EditorInit /\ SettingsInit /\ OcrInit /\ HitInit /\ FooterInit
    /\ RuleInit /\ NoRulesIO /\ DocInit /\ TaskInit
    /\ footer = "masksByFile"
    /\ lastOp = [op |-> "none"]

NextOptions ==
    \/ \E key \in CleaningKeys : ToggleCleaning(key)
    \/ \E key \in VerificationKeys : ToggleVerification(key)
    \/ \E newMode \in Modes : UpdateSettingsMode(newMode)
    \/ \E directory \in DirectoryChoices : SetOutputDirectory(directory)

SpecOptions == InitOptions /\ [][NextOptions]_vars

\* C21: toggleCleaning(k) flips cleaning option k and nothing else: the other
\* cleaning options, the verification options, the mode and the output
\* directory stay; and from every state two toggles give the same options in
\* either order.
C21_ToggleFlipsOneOption ==
    /\ [][\A key \in CleaningKeys :
             ToggleCleaning(key)
                => /\ cleaning'[key] = ~cleaning[key]
                   /\ \A other \in CleaningKeys \ {key} : cleaning'[other] = cleaning[other]
                   /\ verification' = verification
                   /\ mode' = mode /\ outputDirectory' = outputDirectory]_vars
    /\ [](\A a, b \in CleaningKeys :
             toggled(toggled(cleaning, a), b) = toggled(toggled(cleaning, b), a))

\* annotations and javascript have been toggled, and nothing else has changed
C21_Witness ==
    /\ cleaning = [defaultCleaning EXCEPT !.annotations = TRUE, !.javascript = FALSE]
    /\ verification = defaultVerification
    /\ mode = "redact" /\ outputDirectory = <<>>

-----------------------------------------------------------------------------
(* A run of the first Footer, with the job of the Redaction Applier behind it *)

InitJob ==
    /\ FilesLoaded(<<PathA>>) /\ OcrInit /\ HitInit /\ FooterInit
    /\ RuleInit /\ NoRulesIO /\ DocInit /\ TaskInit
    /\ footer = "masksByFile"
    /\ lastOp = [op |-> "none"]

NextJob ==
    \/ \E pageIndex \in 0..(MaxPages - 1) : HandleDelete(pageIndex)
    \/ HandleStartProcessing
    \/ JobSubmit
    \/ JobAnalyze
    \/ \E ocr \in BOOLEAN : JobAnalyzed(ocr)
    \/ JobOcrPage
    \/ JobMask
    \/ JobApply
    \/ \E leaves \in BOOLEAN : JobApplyPage(leaves)
    \/ JobClean
    \/ JobVerify
    \/ JobFail
    \/ JobCancel
    \/ JobAnswer

SpecJob == InitJob /\ [][NextJob]_vars

C23_NoPartialOutput ==
    /\ [](job.final \in {"none", "complete"})
    /\ [][(job'.final # job.final)
             => /\ job.state = "verifying" /\ job'.state = "done"
                /\ job.temp = "complete" /\ job'.final = "complete"]_vars
    /\ [](job.state \in {"failed", "cancelled"}
             => (job.final = job.before /\ job.temp = "none"))

\* a job was cancelled between two page-level steps of applying, after it had
\* written a page, and nothing is at the final path
C23_Witness ==
    /\ job.state = "cancelled" /\ job.page = 1
    /\ job.final = "none" /\ job.temp = "none"

-----------------------------------------------------------------------------
(* Scans of two files with either generation of DetectionPanel, the user    *)
(* selecting files meanwhile                                                *)

InitPanel ==
    /\ FilesLoaded(<<PathA, PathB>>) /\ OcrInit /\ FooterInit
    /\ RuleInit /\ NoRulesIO /\ DocInit /\ TaskInit
    /\ hitsByFile = EmptyMap /\ addedHitsByFile = EmptyMap /\ hitMaskIds = EmptyMap
    /\ scan = NoScan /\ needsOcr = FALSE /\ detectCall = NoCall
    /\ panel \in {"useState", "store"} /\ localHits = NoLocalHits
    /\ footer = "masksByFile"
    /\ lastOp = [op |-> "none"]

NextPanel ==
    \/ \E id \in FileIds : SelectFile(id)
    \/ panel = "store" /\ RunDetection
    \/ panel = "store" /\ \E results \in HitLists : DetectReturn(0, results)
    \/ panel = "store" /\ DetectFail
    \/ panel = "store" /\ \E hitIndex \in 0..1 : AddHitAsMask(hitIndex)
    \/ panel = "store" /\ \E hitIndex \in 0..1 : RemoveHitMask(hitIndex)
    \/ LocalRunDetection
    \/ \E imagePageCount \in 0..1 : \E results \in HitLists :
          LocalDetectReturn(imagePageCount, results)
    \/ LocalDetectFail
    \/ \E hitIndex \in 0..1 : LocalAddHitAsMask(hitIndex)

SpecPanel == InitPanel /\ [][NextPanel]_vars

\* the file the hits on show were detected in
HitsFrom == IF panel = "store" THEN selectedFileId ELSE localHits.from

\* C25: a mask made of a hit goes to the file the hit was detected in and to no
\* other, whatever file the user has selected during the scan or after it.
C25_HitMaskGoesToItsFile ==
    [][\A hitIndex \in 0..1 :
          ((panel = "store" /\ AddHitAsMask(hitIndex)) \/ LocalAddHitAsMask(hitIndex))
             => /\ \A fileId \in FileIds \ {HitsFrom} : FileMasks(fileId)' = FileMasks(fileId)
                /\ nextMaskId' # nextMaskId
                      => \E m \in FileMasks(HitsFrom)' : m.id = nextMaskId]_vars

-----------------------------------------------------------------------------
(* The loadAndRender effect, run again while an earlier run is in flight *)

InitLoads ==
    /\ FileInit /\ EditorInit /\ SettingsInit /\ OcrInit /\ HitInit /\ FooterInit
    /\ RuleInit /\ NoRulesIO /\ DocInit /\ TaskInit
    /\ footer = "masksByFile"
    /\ lastOp = [op |-> "none"]

\* pdfCache gives every run of the effect the same document: its page count
\* is the same for every load of a file
NextLoads ==
    \/ \E paths \in PathChoices : AddFiles(paths)
    \/ \E id \in FileIds : SelectFile(id)
    \/ LoadAndRenderStart
    \/ \E load \in loads : LoadAndRenderDone(load, MaxPages)
    \/ \E pageIndex \in 0..(MaxPages - 1) : HandleDelete(pageIndex)
    \/ \E page \in 0..(MaxPages - 1) : SetCurrentPage(page)
    \/ \E pt \in Pointers : StartDrawing(pt[1], pt[2])
    \/ \E pt \in Pointers : UpdateDrawing(pt[1], pt[2])
    \/ FinishDrawing
    \/ \E id \in FileIds : RemoveFile(id)

SpecLoads == InitLoads /\ [][NextLoads]_vars

\* C26: a page marked delete stays marked delete unless the user acts on that
\* page of that file: no completion of a load resets it to keep.
C26_DeleteMarkKept ==
    [][\A id \in FileIds :
          \A p \in DOMAIN FileById(id).pages :
              (FileById(id).pages[p] = "delete")
                 => \/ id \notin FileIds'
                    \/ (p \in DOMAIN FileById(id)'.pages /\ FileById(id)'.pages[p] = "delete")
                    \/ (selectedFileId = id /\ HandleDelete(p - 1))]_vars

-----------------------------------------------------------------------------
(* loadStatus and setCurrentEngine of useOcrStore in flight together *)

InitEngine ==
    /\ FileInit /\ EditorInit /\ SettingsInit /\ OcrInit /\ HitInit /\ FooterInit
    /\ RuleInit /\ NoRulesIO /\ DocInit /\ TaskInit
    /\ footer = "masksByFile"
    /\ lastOp = [op |-> "none"]

NextEngine ==
    \/ LoadStatus
    \/ \E paddle, tesseract \in BOOLEAN : LoadStatusAnswered(paddle, tesseract)
    \/ LoadStatusResolved
    \/ LoadStatusRejected
    \/ \E engine \in Engines : SetCurrentEngine(engine)
    \/ \E ok \in BOOLEAN : SetOcrEngineReturn(ok)
    \/ \E ok, paddle, tesseract \in BOOLEAN : GetOcrEngineStatusReturn(ok, paddle, tesseract)

SpecEngine == InitEngine /\ [][NextEngine]_vars

\* no loadStatus and no setCurrentEngine call is in flight
NoEngineCall == ~statusLoad.on /\ ~engineSwitch.on

\* C27: when no loadStatus and no setCurrentEngine call is in flight and a
\* status has been stored, currentEngine of the store is the engine selected
\* in the backend and is engineStatus.currentEngine.
C27_EngineSettles ==
    (NoEngineCall /\ engineStatus.on)
        => /\ currentEngine = backendEngine
           /\ engineStatus.currentEngine = currentEngine

-----------------------------------------------------------------------------
(* renderPageToCanvas called again while earlier renders have not finished *)

InitRender ==
    /\ FileInit /\ EditorInit /\ SettingsInit /\ OcrInit /\ HitInit /\ FooterInit
    /\ RuleInit /\ NoRulesIO /\ DocInit /\ TaskInit
    /\ footer = "masksByFile"
    /\ lastOp = [op |-> "none"]

NextRender ==
    \/ \E paths \in PathChoices : AddFiles(paths)
    \/ \E page \in 0..(MaxPages - 1) : SetCurrentPage(page)
    \/ LoadAndRenderStart
    \/ \E load \in loads : LoadAndRenderDone(load, MaxPages)
    \/ RenderPageToCanvas
    \/ \E id \in 1..MaxRenders : RenderSettled(id)

SpecRender == InitRender /\ [][NextRender]_vars

RendersInProgress == {t \in renderTasks : t.state = "running"}

\* C30: at most one render is in progress: when renderPageToCanvas has started
\* a render, every other render that has not finished has been cancelled.
C30_OneRenderInProgress == Cardinality(RendersInProgress) <= 1

-----------------------------------------------------------------------------
(* The document list of useFileStore with loads in flight *)

DocPathChoices == {<<PathA, PathOther>>, <<PathA>>, <<PathBin>>}

InitDocs ==
    /\ FileInit /\ EditorInit /\ SettingsInit /\ OcrInit /\ HitInit /\ FooterInit
    /\ RuleInit /\ NoRulesIO /\ DocInit /\ TaskInit
    /\ footer = "documents"
    /\ lastOp = [op |-> "none"]

NextDocs ==
    \/ \E paths \in DocPathChoices : AddDocuments(paths)
    \/ \E c \in 1..MaxAddCalls : \E ok \in BOOLEAN : LoadDocumentReturn(c, ok)
    \/ \E id \in DocumentIds : RemoveDocument(id)
    \/ \E id \in DocumentIds : SelectDocument(id)
    \/ ClearDocuments

SpecDocs == InitDocs /\ [][NextDocs]_vars

\* C31: the completion of a loadDocument call adds no document and removes
\* none, so a document removed meanwhile stays removed, and it changes no
\* document but the one it was started for.
C31_RemovedStaysRemoved ==
    [][\A c \in DOMAIN addCalls : \A ok \in BOOLEAN :
          LoadDocumentReturn(c, ok)
             => /\ Len(documents') = Len(documents)
                /\ \A i \in DOMAIN documents :
                      /\ documents'[i].id = documents[i].id
                      /\ documents[i].id # Head(addCalls[c]).id
                            => documents'[i] = documents[i]]_vars

\* C31: the first load of a call is in flight for a document that was removed
C31_Witness ==
    \E c \in DOMAIN addCalls : Head(addCalls[c]).id \notin DocumentIds

-----------------------------------------------------------------------------
(* Masks drawn on the preview, then dragged and resized in MaskOverlay *)

\* pointer positions: two near the right edge of the canvas; pointer moves of
\* a whole page to the left or up, and to the right or down
OverlayPointers == {<<237, 40>>, <<240, 140>>}
OverlayDeltas == {0 - One, One}
Handles == {{"n"}, {"s"}, {"e"}, {"w"}, {"n", "e"}, {"n", "w"}, {"s", "e"}, {"s", "w"}}

InitOverlay ==
    /\ FilesLoaded(<<PathA>>) /\ OcrInit /\ HitInit /\ FooterInit
    /\ RuleInit /\ NoRulesIO /\ DocInit /\ TaskInit
    /\ footer = "masksByFile"
    /\ lastOp = [op |-> "none"]

NextOverlay ==
    \/ \E pt \in OverlayPointers : StartDrawing(pt[1], pt[2])
    \/ \E pt \in OverlayPointers : UpdateDrawing(pt[1], pt[2])
    \/ FinishDrawing
    \/ \E maskId \in 1..MaxMasks : RemoveMask(maskId)
    \/ \E maskId \in 1..MaxMasks : \E deltaX, deltaY \in OverlayDeltas :
          DragMask(maskId, deltaX, deltaY)
    \/ \E maskId \in 1..MaxMasks : \E handle \in Handles :
          \E deltaX, deltaY \in OverlayDeltas :
             ResizeByHandle(maskId, handle, deltaX, deltaY)

SpecOverlay == InitOverlay /\ [][NextOverlay]_vars

WithinPage(m) ==
    /\ 0 <= m.x /\ 0 <= m.y
    /\ m.x + m.width <= One /\ m.y + m.height <= One
    /\ m.width > 0 /\ m.height > 0

\* C32: a mask that lies within the page with a positive size still does after
\* every step, a drag or a resize in MaskOverlay included.
C32_OverlayKeepsMaskWithinPage ==
    [][\A m \in StoredMasks : \A n \in StoredMasks' :
          (n.id = m.id /\ WithinPage(m)) => WithinPage(n)]_vars

-----------------------------------------------------------------------------
(* A drawing in progress while the page or the file changes *)

InitDraw ==
    /\ FilesLoaded(<<PathA, PathB>>) /\ OcrInit /\ HitInit /\ FooterInit
    /\ RuleInit /\ NoRulesIO /\ DocInit /\ TaskInit
    /\ footer = "masksByFile"
    /\ lastOp = [op |-> "none"]

NextDraw ==
    \/ \E id \in FileIds : SelectFile(id)
    \/ \E id \in FileIds : RemoveFile(id)
    \/ ClearFiles
    \/ \E page \in 0..(MaxPages - 1) : SetCurrentPage(page)
    \/ \E pt \in Pointers : StartDrawing(pt[1], pt[2])
    \/ \E pt \in Pointers : UpdateDrawing(pt[1], pt[2])
    \/ FinishDrawing

SpecDraw == InitDraw /\ [][NextDraw]_vars

\* the masks stored for a page of a file
MasksAt(m, fileId, page) == Get(Get(m, fileId, EmptyMap), page, <<>>)

\* C33: a step that changes the current file or the current page while a
\* drawing is on discards the drawing, and finishDrawing changes the masks of
\* the current page of the current file only: so a drawn mask is stored on
\* the file and page that were current when its drawing started.
C33_DrawingStaysOnItsPage ==
    /\ [][(drawing.on /\ (currentFileId' # currentFileId \/ currentPage' # currentPage))
             => ~drawing'.on]_vars
    /\ [][FinishDrawing =>
             \A fileId \in DOMAIN masksByFile \cup DOMAIN masksByFile' :
             \A page \in 0..(MaxPages - 1) :
                 (fileId # currentFileId \/ page # currentPage)
                    => MasksAt(masksByFile', fileId, page)
                          = MasksAt(masksByFile, fileId, page)]_vars

\* C33: a mask was drawn on page 1 of the second file after the file and the
\* page had been changed
C33_Witness ==
    /\ lastOp.op = "finishDrawing" /\ lastOp.stored
    /\ currentFileId = 2 /\ currentPage = 1
    /\ Len(MasksAt(masksByFile, 2, 1)) > 0

-----------------------------------------------------------------------------
(* Documents of the sidebar and a PDF file dropped on the window, together *)

ReadyDocument(id, path) ==
    [id |-> id, path |-> path, name |-> NameOfPath(path), status |-> "ready"]

\* addDocuments of two paths whose loads have answered, then a PDF dropped on
\* the window: addFiles, and the page count as loadAndRender leaves it
InitMixed ==
    /\ documents = <<ReadyDocument(1, PathOther), ReadyDocument(2, PathB)>>
    /\ selectedDocumentId = 1 /\ isLoading = FALSE /\ error = FALSE /\ addCalls = <<>>
    /\ TaskInit
    /\ files = <<LoadedFile(3, PathA)>>
    /\ selectedFileId = 3 /\ nextId = 4 /\ loads = {}
    /\ RenderInit
    /\ currentFileId = 3 /\ currentPage = 0 /\ drawing = NoDrawing
    /\ masksByFile = EmptyMap /\ nextMaskId = 1 /\ maskOwner = EmptyMap
    /\ mode = "redact" /\ outputDirectory = getDirectory(PathOther)
    /\ cleaning = defaultCleaning /\ verification = defaultVerification
    /\ OcrInit /\ HitInit /\ FooterInit /\ RuleInit /\ NoRulesIO
    /\ footer = "documents"
    /\ lastOp = [op |-> "none"]

\* PreviewPane: PreviewCanvas is shown when no listed document is selected
NoDocumentShown == selectedDocumentId \notin DocumentIds

NextMixed ==
    \/ \E id \in DocumentIds : SelectDocument(id)
    \/ \E id \in DocumentIds : RemoveDocument(id)
    \/ ClearDocuments
    \/ \E id \in FileIds : SelectFile(id)
    \/ \E id \in FileIds : RemoveFile(id)
    \/ \E page \in 0..(MaxPages - 1) : SetCurrentPage(page)
    \/ NoDocumentShown /\ \E pt \in Pointers : StartDrawing(pt[1], pt[2])
    \/ NoDocumentShown /\ \E pt \in Pointers : UpdateDrawing(pt[1], pt[2])
    \/ NoDocumentShown /\ FinishDrawing
    \/ NoDocumentShown /\ \E maskId \in 1..MaxMasks : RemoveMask(maskId)

SpecMixed == InitMixed /\ [][NextMixed]_vars

\* the ids masks are stored under
MaskedIds ==
    {f \in DOMAIN masksByFile : \E page \in DOMAIN masksByFile[f] : masksByFile[f][page] # <<>>}

\* C34: masks are stored only under the ids of listed files and documents, so
\* no operation after a removal stores a mask under the removed id.
C34_MasksOfListedFilesOnly == MaskedIds \subseteq (FileIds \cup DocumentIds)

\* the removal itself: the masks of the removed id are deleted and the masks of
\* every other id are unchanged
C34_RemovalDeletesItsMasksOnly ==
    [][\A id \in FileIds \cup DocumentIds :
          (RemoveFile(id) \/ RemoveDocument(id))
             => /\ id \notin DOMAIN masksByFile'
                /\ \A f \in DOMAIN masksByFile \ {id} :
                      f \in DOMAIN masksByFile' /\ masksByFile'[f] = masksByFile[f]]_vars

-----------------------------------------------------------------------------
(* The selected id of a list and the current file of the editor *)

FileSelectionKept ==
    /\ selectedFileId \in FileIds \cup {Null}
    /\ files # <<>> => selectedFileId # Null
    /\ currentFileId = selectedFileId

DocumentSelectionKept ==
    /\ selectedDocumentId \in DocumentIds \cup {Null}
    /\ documents # <<>> => selectedDocumentId # Null
    /\ currentFileId = selectedDocumentId

\* C35: the selected id of the list in use is null or the id of a listed entry,
\* is not null while the list has entries, and is the editor's currentFileId.
C35_SelectedIsCurrent ==
    /\ documents = <<>> => FileSelectionKept
    /\ files = <<>> => DocumentSelectionKept

-----------------------------------------------------------------------------
(* The task queue while it is paused *)

TaskFileIds == 1..MaxTasks
TaskProgress == {50, 100}

InitTasks ==
    /\ FileInit /\ EditorInit /\ SettingsInit /\ OcrInit /\ HitInit /\ FooterInit
    /\ RuleInit /\ NoRulesIO /\ DocInit /\ TaskInit
    /\ footer = "documents"
    /\ lastOp = [op |-> "none"]

NextTasks ==
    \/ \E n \in TaskFileIds : startProcessing([i \in 1..n |-> i])
    \/ pauseProcessing
    \/ resumeProcessing
    \/ \E fileId \in TaskFileIds : cancelTask(fileId)
    \/ \E fileId \in TaskFileIds : retryTask(fileId)
    \/ \E fileId \in TaskFileIds : \E progress \in TaskProgress :
          updateTaskProgress(fileId, progress, "redact")
    \/ \E fileId \in TaskFileIds :
          \/ setTaskStatus(fileId, "completed", FALSE)
          \/ setTaskStatus(fileId, "error", TRUE)
    \/ clearTasks

SpecTasks == InitTasks /\ [][NextTasks]_vars

\* C36: while the queue is paused, isRunning is false and no task is running
C36_PausedQueueHasNoRunningTask ==
    pausedNow => /\ ~isRunning
                 /\ \A i \in DOMAIN tasks : tasks[i].status # "running"

=============================================================================
